---- MODULE Spec2Model ----
(***************************************************************************)
(* Chemical component model workflow (rcsb.ccmodels.search).               *)
(*                                                                         *)
(* These parts of the workflow are modelled:                               *)
(*   - ChemCompModelAssemble.assemble : filters the models of a model      *)
(*     index, concatenates their containers and relabels them with public  *)
(*     identifiers, reusing the identifiers of prior audit records;        *)
(*   - CODModelBuildWorker.build : evaluates the alignment of each         *)
(*     candidate match and writes a model for the accepted ones;           *)
(*   - ChemCompModelBuild.build : runs ChemCompModelBuildWorker.build on   *)
(*     the search results, in parallel workers, and stores the model index;*)
(*   - single calls of __replaceModelId and of __writeModel.               *)
(*                                                                         *)
(* Strings that the code splits, formats, parses or orders are sequences   *)
(* of one-character strings, so that split("_"), "%05d", int() and the     *)
(* string comparison of sorted() are computed as Python computes them.     *)
(***************************************************************************)
EXTENDS Integers, Sequences, FiniteSets, TLC

VARIABLES
    modelIndex,   \* the persisted model index: parentId -> list of entries
    modelFiles,   \* the model files: modelPath -> list of containers
    priorAudit,   \* ChemCompModelProvider.getAuditDetails(): parentId -> list
    today,        \* the current date (a day number)
    asm           \* the last assemble() run: its outcome and what it wrote

\* CODModelBuildWorker.build(dataList, ...): one call
VARIABLES
    pc,                 \* the step of build() that comes next
    idxIdL,             \* the search ids of dataList taken so far
    cur,                \* the locals of the current iteration over matchDList
    parentModelCountD,  \* parentId -> number of models written
    resultList,         \* the records of the models written
    successList,        \* the search ids counted as successes
    codFiles,           \* the model files written: modelPath -> containers
    ret                 \* the value returned by build()

VARIABLES
    call,               \* a single call of a method: its arguments and result
    ccmBuild            \* a run of ChemCompModelBuild.build and its workers

asmVars == <<modelIndex, modelFiles, priorAudit, asm>>
buildVars ==
    <<pc, idxIdL, cur, parentModelCountD, resultList, successList, codFiles, ret>>
otherVars == <<call, ccmBuild>>
vars == <<asmVars, today, buildVars, otherVars>>

--------------------------------------------------------------------------
(* Python strings                                                          *)

\* ord() of the characters that occur in identifiers and variant names.
CharCode(c) ==
    CASE c = "0" -> 48 [] c = "1" -> 49 [] c = "2" -> 50 [] c = "3" -> 51
      [] c = "4" -> 52 [] c = "5" -> 53 [] c = "6" -> 54 [] c = "7" -> 55
      [] c = "8" -> 56 [] c = "9" -> 57
      [] c = "A" -> 65 [] c = "B" -> 66 [] c = "C" -> 67 [] c = "D" -> 68
      [] c = "M" -> 77 [] c = "P" -> 80 [] c = "Q" -> 81 [] c = "R" -> 82
      [] c = "X" -> 88 [] c = "Y" -> 89 [] c = "Z" -> 90
      [] c = "_" -> 95
      [] c = "a" -> 97 [] c = "e" -> 101 [] c = "m" -> 109 [] c = "n" -> 110
      [] c = "o" -> 111 [] c = "p" -> 112 [] c = "r" -> 114 [] c = "t" -> 116
      [] c = "u" -> 117
      [] c = "|" -> 124

\* a < b for Python strings: lexicographic on the character codes.
RECURSIVE StrLess(_, _)
StrLess(a, b) ==
    IF b = <<>> THEN FALSE
    ELSE IF a = <<>> THEN TRUE
    ELSE IF CharCode(Head(a)) # CharCode(Head(b))
         THEN CharCode(Head(a)) < CharCode(Head(b))
         ELSE StrLess(Tail(a), Tail(b))

\* s.split(sep) for a one-character separator.
RECURSIVE Split(_, _)
Split(s, sep) ==
    IF s = <<>> THEN << <<>> >>
    ELSE LET rest == Split(Tail(s), sep)
         IN  IF Head(s) = sep
             THEN << <<>> >> \o rest
             ELSE << <<Head(s)>> \o Head(rest) >> \o Tail(rest)

\* s.startswith(c) for a one-character prefix.
StartsWith(s, c) == Len(s) > 0 /\ s[1] = c

DigitChar(d) ==
    CASE d = 0 -> "0" [] d = 1 -> "1" [] d = 2 -> "2" [] d = 3 -> "3"
      [] d = 4 -> "4" [] d = 5 -> "5" [] d = 6 -> "6" [] d = 7 -> "7"
      [] d = 8 -> "8" [] d = 9 -> "9"

\* "%d" % n, n >= 0
RECURSIVE Decimal(_)
Decimal(n) ==
    IF n < 10 THEN <<DigitChar(n)>>
    ELSE Decimal(n \div 10) \o <<DigitChar(n % 10)>>

RECURSIVE ZeroPad(_, _)
ZeroPad(s, width) == IF Len(s) >= width THEN s ELSE ZeroPad(<<"0">> \o s, width)

\* "%05d" % n
Fmt05d(n) == ZeroPad(Decimal(n), 5)

\* int(s) for a string of decimal digits
RECURSIVE ParseInt(_)
ParseInt(s) ==
    IF s = <<>> THEN 0
    ELSE 10 * ParseInt(SubSeq(s, 1, Len(s) - 1)) + (CharCode(s[Len(s)]) - 48)

--------------------------------------------------------------------------
(* Identifiers                                                             *)

Znone == <<"Z", "n", "o", "n", "e">>
Anone == <<"A", "n", "o", "n", "e">>
TautomerProtomer ==
    <<"t", "a", "u", "t", "o", "m", "e", "r", "_",
      "p", "r", "o", "t", "o", "m", "e", "r">>

\* ChemCompModelBuildWorker.__makeModelId and
\* ChemCompModelAssemble.__makePublicModelId: "M_" + parentId + "_%05d" % num
MakeModelId(parentId, modelNum) ==
    <<"M", "_">> \o parentId \o <<"_">> \o Fmt05d(modelNum)

MakePublicModelId(parentId, modelNum) ==
    <<"M", "_">> \o parentId \o <<"_">> \o Fmt05d(modelNum)

\* ChemCompModelBuildWorker.__makeModelPath: <modelDir>/<parentId>/<modelId>.cif
MakeModelPath(parentId, modelId) == [dir |-> parentId, file |-> modelId]

--------------------------------------------------------------------------
(* Containers (mmCIF data blocks) of model files                           *)

\* the categories that carry the model identifier, in the order of updateL
UpdateL ==
    << "pdbx_chem_comp_model", "pdbx_chem_comp_model_atom",
       "pdbx_chem_comp_model_bond", "pdbx_chem_comp_model_descriptor",
       "pdbx_chem_comp_model_reference", "pdbx_chem_comp_model_feature",
       "pdbx_chem_comp_model_audit" >>

CatNames == {UpdateL[i] : i \in 1..Len(UpdateL)}

\* matchObj.getIdentifier() is None
NoIdentifier == "None"

\* The container that ChemCompModelBuildWorker.__writeModel exports for an
\* accepted match: every category carries modelId, the reference category
\* names the CSD entry and is written if the match has an identifier
\* (lines 550-558), the audit category has the one "Initial release" row.
\* The features keep the R factor and, for a variant, "<variantType>_match".
WrittenContainer(modelId, parentId, matchId, rFactor, variantType, date) ==
    [ name     |-> modelId,
      ids      |-> [c \in (IF matchId = NoIdentifier
                           THEN CatNames \ {"pdbx_chem_comp_model_reference"}
                           ELSE CatNames) |-> modelId],
      comp_id  |-> parentId,
      db_name  |-> "CSD",
      db_code  |-> matchId,
      r_factor |-> rFactor,
      variant  |-> variantType,
      audit    |-> << [action_type |-> "Initial release", date |-> date] >> ]

\* ChemCompModelAssemble.__replaceModelId: the container is renamed, then the
\* categories are updated in the order of updateL; getObj() of a missing
\* category returns None and the AttributeError ends the loop (logged).
RECURSIVE ReplaceFrom(_, _, _, _)
ReplaceFrom(ids, i, oldModelId, newModelId) ==
    IF i > Len(UpdateL) THEN ids
    ELSE IF UpdateL[i] \notin DOMAIN ids THEN ids
    ELSE ReplaceFrom(
            [ids EXCEPT ![UpdateL[i]] =
                IF @ = oldModelId THEN newModelId ELSE @],
            i + 1, oldModelId, newModelId)

ReplaceModelId(dataContainer, oldModelId, newModelId) ==
    [dataContainer EXCEPT
        !.name = newModelId,
        !.ids  = ReplaceFrom(@, 1, oldModelId, newModelId)]

\* the date of the last audit row set to the day of the run
UpdateAuditDateToToday(dataContainer, auditDate) ==
    IF dataContainer.audit = <<>> THEN dataContainer
    ELSE [dataContainer EXCEPT
            !.audit[Len(dataContainer.audit)].date = today]

\* ChemCompModelAssemble.__updateAuditDate: the date of the last audit row
UpdateAuditDate(dataContainer, auditDate) ==
    IF "pdbx_chem_comp_model_audit" \notin DOMAIN dataContainer.ids
       \/ dataContainer.audit = <<>>
    THEN dataContainer
    ELSE [dataContainer EXCEPT
            !.audit[Len(dataContainer.audit)].date = auditDate]

--------------------------------------------------------------------------
(* ChemCompModelAssemble.assemble                                          *)

\* assemble(self, maxRFactor=10.0); R factors are in whole units
MaxRFactor == 10

ABC == <<"A", "B", "C">>
XYZ == <<"X", "Y", "Z">>

\* the order in which the parents occur in the index (dict order)
\* two BIRD definitions
PRD1 == <<"P", "R", "D", "_", "0", "0", "0", "1", "2", "3">>
PRD2 == <<"P", "R", "D", "_", "0", "0", "0", "4", "5", "6">>

ParentOrder == <<ABC, XYZ, PRD1, PRD2>>

\* the body of the loop over mDL for one prior match (lines 135-144);
\* mD[key] = value sets or adds the key of the dict
ApplyPriorMatch(mD, priorMatch) ==
    IF priorMatch.db_name = "CSD" /\ mD.matchId = priorMatch.db_code
    THEN [ priorModelId |-> priorMatch.model_id,
           priorMatchDate |->
               priorMatch.audit_list[Len(priorMatch.audit_list)].audit_date ]
         @@ mD
    ELSE [priorModelId |-> Znone] @@ mD

\* the loop over the prior matches of one parent (lines 128-144)
RECURSIVE ApplyPriorMatches(_, _, _)
ApplyPriorMatches(mDL, priorMatchL, k) ==
    IF k > Len(priorMatchL) THEN mDL
    ELSE ApplyPriorMatches(
            [i \in 1..Len(mDL) |-> ApplyPriorMatch(mDL[i], priorMatchL[k])],
            priorMatchL, k + 1)

\* ChemCompModelAssemble.__addPriorMatchDetails
AddPriorMatchDetails(modelIndexD, priorMatchLD) ==
    [pId \in DOMAIN modelIndexD |->
        IF pId \in DOMAIN priorMatchLD
        THEN ApplyPriorMatches(modelIndexD[pId], priorMatchLD[pId], 1)
        ELSE [i \in 1..Len(modelIndexD[pId]) |->
                [priorModelId |-> Znone] @@ modelIndexD[pId][i]]]

\* ChemCompModelAssemble.__updateVariantDetails
UpdateVariantDetails(modelIndexD) ==
    [pId \in DOMAIN modelIndexD |->
        [i \in 1..Len(modelIndexD[pId]) |->
            IF modelIndexD[pId][i].variantType = <<>>
            THEN [modelIndexD[pId][i] EXCEPT !.variantType = Anone]
            ELSE modelIndexD[pId][i]]]

\* the order of the keys itemgetter("priorModelId", "rFactor")
KeyLessNoVariant(a, b) ==
    IF a.priorModelId # b.priorModelId
    THEN StrLess(a.priorModelId, b.priorModelId)
    ELSE a.rFactor < b.rFactor

\* the order of itemgetter("priorModelId", "variantType", "rFactor") keys:
\* Python compares the key tuples item by item
KeyLess(a, b) ==
    IF a.priorModelId # b.priorModelId
    THEN StrLess(a.priorModelId, b.priorModelId)
    ELSE IF a.variantType # b.variantType
         THEN StrLess(a.variantType, b.variantType)
         ELSE a.rFactor < b.rFactor

RECURSIVE InsertSorted(_, _)
InsertSorted(x, s) ==
    IF s = <<>> THEN <<x>>
    ELSE IF KeyLess(x, Head(s)) THEN <<x>> \o s
    ELSE <<Head(s)>> \o InsertSorted(x, Tail(s))

\* sorted(mDL, key=..., reverse=False): stable
RECURSIVE SortedModels(_)
SortedModels(mDL) ==
    IF Len(mDL) = 0 THEN <<>>
    ELSE InsertSorted(mDL[Len(mDL)],
                      SortedModels(SubSeq(mDL, 1, Len(mDL) - 1)))

\* mD["rFactor"] >= maxRFactor
RFactorAtLeast(mD, maxRFactor) == mD.rFactor >= maxRFactor

\* if mD["rFactor"] > maxRFactor: ... continue  (line 70)
RFactorTooHigh(mD, maxRFactor) == mD.rFactor > maxRFactor

\* the loop over the sorted models of one parent (lines 63-81): the
\* models whose file is imported
RECURSIVE SelectModels(_, _, _, _)
SelectModels(mDLS, i, numStd, maxRFactor) ==
    IF i > Len(mDLS) THEN <<>>
    ELSE LET mD    == mDLS[i]
             isStd == StartsWith(mD.variantType, "A")
             n     == IF isStd THEN numStd + 1 ELSE numStd
             rest  == SelectModels(mDLS, i + 1, n, maxRFactor)
         IN  IF RFactorTooHigh(mD, maxRFactor) THEN rest
             ELSE IF n > 0 /\ ~isStd THEN rest
             ELSE <<mD>> \o rest

\* the loop over the parents (lines 60-81)
RECURSIVE SelectAll(_, _, _)
SelectAll(modelIndexD, k, maxRFactor) ==
    IF k > Len(ParentOrder) THEN <<>>
    ELSE (IF ParentOrder[k] \in DOMAIN modelIndexD
          THEN SelectModels(SortedModels(modelIndexD[ParentOrder[k]]),
                            1, 0, maxRFactor)
          ELSE <<>>)
         \o SelectAll(modelIndexD, k + 1, maxRFactor)

\* mU.doImport(mD["modelPath"], fmt="mmcif") for each selected model
RECURSIVE ImportAll(_, _)
ImportAll(selL, files) ==
    IF selL = <<>> THEN <<>>
    ELSE (IF Head(selL).modelPath \in DOMAIN files
          THEN files[Head(selL).modelPath] ELSE <<>>)
         \o ImportAll(Tail(selL), files)

\* priorMapD[mD["modelId"]] = (mD["priorModelId"], mD["priorMatchDate"])
\* for the selected models with a prior identifier (lines 80-81)
PriorMapD(selL) ==
    LET keyed == {i \in 1..Len(selL) : ~StartsWith(selL[i].priorModelId, "Z")}
    IN  [tModelId \in {selL[i].modelId : i \in keyed} |->
            LET j == CHOOSE j \in keyed :
                        /\ selL[j].modelId = tModelId
                        /\ \A j2 \in keyed :
                              selL[j2].modelId = tModelId => j2 <= j
            IN  <<selL[j].priorModelId, selL[j].priorMatchDate>>]

\* sorted(l)[-1]
MaxOf(l) == CHOOSE m \in {l[i] : i \in 1..Len(l)} :
                \A i \in 1..Len(l) : l[i] <= m

\* d[k] of a defaultdict(int) and d.setdefault(k, [])
CountOf(d, k) == IF k \in DOMAIN d THEN d[k] ELSE 0
ListOf(d, k) == IF k \in DOMAIN d THEN d[k] ELSE <<>>

\* the body of the relabel loop (lines 89-103)
RelabelStep(st, dataContainer, priorMapD) ==
    LET tModelId == dataContainer.name
        tId      == Split(tModelId, "_")[2]
        pId      == Split(tId, "|")[1]
    IN  IF tModelId \in DOMAIN priorMapD
        THEN LET pCount == Split(priorMapD[tModelId][1], "_")[3]
                 idL    == Append(ListOf(st.priorIdLD, pId), ParseInt(pCount))
             IN  [ parentModelCountD |->
                       (pId :> MaxOf(idL)) @@ st.parentModelCountD,
                   priorIdLD |-> (pId :> idL) @@ st.priorIdLD,
                   out |-> Append(st.out,
                              UpdateAuditDate(
                                 ReplaceModelId(dataContainer, tModelId,
                                                priorMapD[tModelId][1]),
                                 priorMapD[tModelId][2])) ]
        ELSE LET num == CountOf(st.parentModelCountD, pId) + 1
             IN  [ parentModelCountD |-> (pId :> num) @@ st.parentModelCountD,
                   priorIdLD |-> st.priorIdLD,
                   out |-> Append(st.out,
                              ReplaceModelId(dataContainer, tModelId,
                                             MakePublicModelId(pId, num))) ]

\* parentModelCountD = defaultdict(int); priorIdLD = {}  (lines 86-87)
RelabelStart == [parentModelCountD |-> <<>>, priorIdLD |-> <<>>, out |-> <<>>]

RECURSIVE Relabel(_, _, _, _)
Relabel(st, dataContainerL, k, priorMapD) ==
    IF k > Len(dataContainerL) THEN st
    ELSE Relabel(RelabelStep(st, dataContainerL[k], priorMapD),
                 dataContainerL, k + 1, priorMapD)

\* the models selected by assemble from the fetched index, in the order of
\* their import
Selected(index, priorMatchLD, maxRFactor) ==
    SelectAll(UpdateVariantDetails(
                 AddPriorMatchDetails(index, priorMatchLD)),
              1, maxRFactor)

--------------------------------------------------------------------------
(* CODModelBuildWorker.build                                               *)

\* sub in s, for Python strings
HasPrefix(s, sub) == Len(sub) <= Len(s) /\ SubSeq(s, 1, Len(sub)) = sub

RECURSIVE Contains(_, _)
Contains(s, sub) ==
    IF Len(s) < Len(sub) THEN FALSE
    ELSE HasPrefix(s, sub) \/ Contains(Tail(s), sub)

Tautomer == <<"t", "a", "u", "t", "o", "m", "e", "r">>
Protomer == <<"p", "r", "o", "t", "o", "m", "e", "r">>
ModelXyz == <<"m", "o", "d", "e", "l", "-", "x", "y", "z">>

\* the search ids (ccId) of the parent ABC: the component itself and two
\* generated forms of it
ABCt == ABC \o <<"|", "t">>
ABCp == ABC \o <<"|", "p">>
SearchIds == {ABC, ABCt, ABCp}

\* ChemCompSearchIndexProvider.getIndexEntry(sId)
GetIndexEntry(sId) ==
    [ buildType |-> IF sId = ABCt THEN Tautomer
                    ELSE IF sId = ABCp THEN Protomer
                    ELSE ModelXyz ]

\* the variant of a target whose build type is not looked up
GetBuildVariantNone(sId) == <<>>

\* CODModelBuildWorker.__getBuildVariant
GetBuildVariant(sId) ==
    LET sidxD == GetIndexEntry(sId)
    IN  IF Contains(sidxD.buildType, Protomer) THEN TautomerProtomer
        ELSE IF Contains(sidxD.buildType, Tautomer) THEN TautomerProtomer
        ELSE <<>>

\* CODModelBuildWorker.__makeModelId: "Q_" + parentId + "_%05d" % modelNum
CODMakeModelId(parentId, modelNum) ==
    <<"Q", "_">> \o parentId \o <<"_">> \o Fmt05d(modelNum)

\* CODModelBuildWorker.__makeModelPath with scanExisting=False: the
\* identifier is made of the target id, the directory of the parent id
CODMakeModelPath(parentId, targetId, startingModelNum) ==
    LET modelId == CODMakeModelId(targetId, startingModelNum)
    IN  [ modelId   |-> modelId,
          modelPath |-> [dir |-> parentId, file |-> modelId] ]

\* a test that passes whatever the unmapped fit atoms are
TestUnMappedProtonationAny(fitAtomUnMappedL) == TRUE

\* CODModelBuildWorker.__testUnMappedProtonation: every unmapped fit atom
\* is a hydrogen
TestUnMappedProtonation(fitAtomUnMappedL) ==
    \A i \in 1..Len(fitAtomUnMappedL) : fitAtomUnMappedL[i].fitAtNo = 1

\* a check of the neighbors that passes whatever the neighbors are
NeighborsMappedAny(fitXyzMapD, fitAtomUnMappedL) == TRUE

\* the check of the neighbors of the unmapped atoms (lines 481-492):
\* fitAtMapD is keyed by the names of the mapped fit atoms
NeighborsMapped(fitXyzMapD, fitAtomUnMappedL) ==
    LET fitAtMapD == {fitXyzMapD[refAtName].atName :
                         refAtName \in DOMAIN fitXyzMapD}
    IN  \A i \in 1..Len(fitAtomUnMappedL) :
           \A j \in 1..Len(fitAtomUnMappedL[i].fitNeighbors) :
              fitAtomUnMappedL[i].fitNeighbors[j] \in fitAtMapD

\* kList
KList == {"xyz", "SMILES", "SMILES_STEREO", "InChI", "InChIKey"}

\* the checks of __writeModel without the test of the descriptors
WriteModelChecksNoKeyTest(targetId, fitFD, fitXyzMapD, fitAtomUnMappedL) ==
    [ ok |-> /\ TestUnMappedProtonation(fitAtomUnMappedL)
             /\ NeighborsMapped(fitXyzMapD, fitAtomUnMappedL),
      variantType |-> IF fitAtomUnMappedL # <<>> THEN TautomerProtomer
                      ELSE GetBuildVariant(targetId) ]

\* CODModelBuildWorker.__writeModel up to the export (lines 472-504): the
\* variant type, and whether the container is built and exported
WriteModelChecks(targetId, fitFD, fitXyzMapD, fitAtomUnMappedL) ==
    LET variantType == GetBuildVariant(targetId)
    IN  IF ~TestUnMappedProtonation(fitAtomUnMappedL)
        THEN [ok |-> FALSE, variantType |-> variantType]
        ELSE IF fitAtomUnMappedL # <<>>
                /\ ~NeighborsMapped(fitXyzMapD, fitAtomUnMappedL)
        THEN [ok |-> FALSE, variantType |-> variantType]
        ELSE LET vT == IF fitAtomUnMappedL # <<>> THEN TautomerProtomer
                       ELSE variantType
             IN  [ok |-> KList \subseteq DOMAIN fitFD, variantType |-> vT]

\* the container that __writeModel exports (lines 506-735)
CODWrittenContainer(modelId, targetId, matchD, variantType, date) ==
    [ name     |-> modelId,
      ids      |-> [c \in CatNames |-> modelId],
      comp_id  |-> Split(targetId, "|")[1],
      db_name  |-> "COD",
      db_code  |-> matchD.queryId,
      r_factor |-> matchD.rValue,
      variant  |-> variantType,
      audit    |-> << [action_type |-> "Initial release", date |-> date] >> ]

\* the acceptance tests without the test of len(fitXyzMapD) < 2
AcceptOkAnyLength(nAtomsRef, nMapped, smilesMatch, hasUnMapped, unMappedOk) ==
    \/ nAtomsRef = nMapped /\ smilesMatch
    \/ nAtomsRef > nMapped /\ smilesMatch
    \/ nAtomsRef = nMapped /\ hasUnMapped /\ unMappedOk

\* the acceptance tests without the test of the unmapped protons
AcceptOkNoProtonTest(nAtomsRef, nMapped, smilesMatch, hasUnMapped, unMappedOk) ==
    IF nMapped < 2 THEN FALSE
    ELSE \/ nAtomsRef = nMapped /\ smilesMatch
         \/ nAtomsRef > nMapped /\ smilesMatch

\* the acceptance tests of build (lines 145-159); nMapped is len(fitXyzMapD)
AcceptOk(nAtomsRef, nMapped, smilesMatch, hasUnMapped, unMappedOk) ==
    IF nMapped < 2 THEN FALSE
    ELSE \/ nAtomsRef = nMapped /\ smilesMatch
         \/ nAtomsRef > nMapped /\ smilesMatch
         \/ nAtomsRef = nMapped /\ hasUnMapped /\ unMappedOk

SeqsUpTo(S, n) == UNION {[1..k -> S] : k \in 0..n}

\* bounds: the matches of one call, the atoms of a reference molecule and
\* the unmapped atoms of a fit molecule
MaxMatches == 2
MaxAtoms == 3
MaxUnMapped == 2

RefAtNames == <<"C1", "C2", "O3", "N4", "C5", "C6">>
FitAtNames == <<"c1", "c2", "o3", "n4", "c5", "c6">>

\* atomMapD of an alignment that maps the first m atoms of the reference
FitXyzMap(m) ==
    [refAtName \in {RefAtNames[i] : i \in 1..m} |->
        [atName |-> FitAtNames[CHOOSE i \in 1..m : RefAtNames[i] = refAtName]]]

\* unmapped fit atoms: a hydrogen on the first fit atom, a hydrogen on a
\* fit atom that is never mapped, and an oxygen
UnMappedChoices ==
    { [fitAtNo |-> 1, fitAtName |-> "h1", fitNeighbors |-> <<FitAtNames[1]>>],
      [fitAtNo |-> 1, fitAtName |-> "h2", fitNeighbors |-> <<"o9">>],
      [fitAtNo |-> 8, fitAtName |-> "o9", fitNeighbors |-> <<FitAtNames[1]>>] }

RefSmiles == "C[C@H](N)O"
FitSmilesChoices == {RefSmiles, "CC(N)O"}

\* the descriptors of the fit molecule: all of them, or all but the InChIKey
FitKeyChoices == {KList, KList \ {"InChIKey"}}

\* (mapped atoms, atoms of the reference): all the atoms of the reference
\* are mapped, or one is not, or the count is one short
AtomCounts ==
    { c \in (0..MaxAtoms) \X (0..MaxAtoms) : c[2] - c[1] \in -1..1 }

\* what OeAlignUtils.doAlignSs and __alignModelSubStruct (lines 309-320)
\* return for a reference and a fit molecule
Alignments ==
    { [ nAtomsRef        |-> c[2],
        refFD            |-> [SMILES_STEREO |-> RefSmiles],
        nAtomsFit        |-> c[1] + Len(unL),
        fitFD            |-> [k \in keys |->
                                 IF k = "SMILES_STEREO" THEN smi ELSE k],
        fitXyzMapD       |-> FitXyzMap(c[1]),
        fitAtomUnMappedL |-> unL,
        isSkipped        |-> FALSE ] :
        c \in AtomCounts,
        unL \in SeqsUpTo(UnMappedChoices, MaxUnMapped),
        smi \in FitSmilesChoices,
        keys \in FitKeyChoices }

\* the values of an alignment that covers a reference of two atoms
AlignFailureAsMatch ==
    [ nAtomsRef |-> 2, refFD |-> [SMILES_STEREO |-> RefSmiles],
      nAtomsFit |-> 2,
      fitFD |-> [k \in KList |-> IF k = "SMILES_STEREO" THEN RefSmiles ELSE k],
      fitXyzMapD |-> FitXyzMap(2), fitAtomUnMappedL |-> <<>>,
      isSkipped |-> FALSE ]

\* 0, {}, 0, {}, {}, [], False  (lines 127 and 323)
AlignFailure ==
    [ nAtomsRef |-> 0, refFD |-> <<>>, nAtomsFit |-> 0, fitFD |-> <<>>,
      fitXyzMapD |-> <<>>, fitAtomUnMappedL |-> <<>>, isSkipped |-> FALSE ]

\* one entry of idxIdD[idxId] (CODModelSearch.fetchMatchedData)
MatchD(queryId, ccId) ==
    [ queryId |-> queryId, ccId |-> ccId, parentId |-> Split(ccId, "|")[1],
      rValue |-> 5, hasDisorder |-> "N" ]

BuildIdle ==
    /\ pc = "begin"
    /\ idxIdL = <<>>
    /\ cur = [ matchD |-> MatchD(0, ABC), targetObj |-> FALSE,
               aln |-> AlignFailure, acceptOk |-> FALSE,
               modelId |-> <<>>, export |-> "none" ]
    /\ parentModelCountD = <<>>
    /\ resultList = <<>>
    /\ successList = <<>>
    /\ codFiles = <<>>
    /\ ret = <<>>

\* the end of the loop over the matches of a search id (lines 233-235)
EndOfIdxId ==
    IF idxIdL # <<>> /\ resultList # <<>>
    THEN Append(successList, idxIdL[Len(idxIdL)])
    ELSE successList

\* the next matchD of the current search id, or the first one of the next
\* search id of dataList, and its target molecule (lines 86-108)
NextMatch ==
    /\ pc \in {"begin", "loop"}
    /\ cur.matchD.queryId < MaxMatches
    /\ \E ccId \in SearchIds, targetObj \in BOOLEAN :
          /\ \/ /\ idxIdL # <<>>
                /\ ccId = idxIdL[Len(idxIdL)]
                /\ UNCHANGED <<idxIdL, successList>>
             \/ /\ \A i \in 1..Len(idxIdL) : idxIdL[i] # ccId
                /\ idxIdL' = Append(idxIdL, ccId)
                /\ successList' = EndOfIdxId
          /\ cur' = [ matchD |-> MatchD(cur.matchD.queryId + 1, ccId),
                      targetObj |-> targetObj,
                      aln |-> AlignFailure, acceptOk |-> FALSE,
                      modelId |-> <<>>, export |-> "none" ]
          /\ pc' = IF targetObj THEN "align" ELSE "loop"
    /\ UNCHANGED <<parentModelCountD, resultList, codFiles, ret>>
    /\ UNCHANGED <<asmVars, today, otherVars>>

\* the call of __alignModelSubStruct (lines 115-127): an alignment, or
\* the values of a failed one
Align ==
    /\ pc = "align"
    /\ \/ \E a \in Alignments : cur' = [cur EXCEPT !.aln = a]
       \/ cur' = [cur EXCEPT !.aln = AlignFailure]
    /\ pc' = "judge"
    /\ UNCHANGED <<idxIdL, parentModelCountD, resultList, successList,
                   codFiles, ret>>
    /\ UNCHANGED <<asmVars, today, otherVars>>

\* the rest of the iteration (lines 129-228): the acceptance tests, the
\* model path, __writeModel and the record of the model
Judge ==
    /\ pc = "judge"
    /\ pc' = "loop"
    /\ LET a        == cur.aln
           matchD   == cur.matchD
           targetId == matchD.ccId
           parentId == matchD.parentId
       IN  IF (a.nAtomsRef = 0 /\ a.nAtomsFit = 0) \/ a.isSkipped
           THEN UNCHANGED <<cur, parentModelCountD, resultList, codFiles>>
           ELSE
             LET smilesMatch == a.refFD.SMILES_STEREO = a.fitFD.SMILES_STEREO
                 hasUnMapped == Len(a.fitAtomUnMappedL) > 0
                 unMappedOk  == TestUnMappedProtonation(a.fitAtomUnMappedL)
                 acceptOk    == AcceptOk(a.nAtomsRef,
                                         Cardinality(DOMAIN a.fitXyzMapD),
                                         smilesMatch, hasUnMapped, unMappedOk)
                 mp == CODMakeModelPath(parentId, targetId,
                          CountOf(parentModelCountD, parentId) + 1)
                 w  == WriteModelChecks(targetId, a.fitFD, a.fitXyzMapD,
                                        a.fitAtomUnMappedL)
             IN  IF ~acceptOk
                 THEN UNCHANGED <<cur, parentModelCountD, resultList, codFiles>>
                 ELSE \E exportOk \in (IF w.ok THEN BOOLEAN ELSE {FALSE}) :
                    /\ cur' = [cur EXCEPT
                                 !.acceptOk = TRUE,
                                 !.modelId = mp.modelId,
                                 !.export = IF ~w.ok THEN "none"
                                            ELSE IF exportOk THEN "ok"
                                            ELSE "failed"]
                    /\ IF w.ok /\ exportOk
                       THEN /\ codFiles' =
                                 (mp.modelPath :>
                                     << CODWrittenContainer(
                                           mp.modelId, targetId, matchD,
                                           w.variantType, today) >>)
                                 @@ codFiles
                            /\ parentModelCountD' =
                                 (parentId :>
                                     CountOf(parentModelCountD, parentId) + 1)
                                 @@ parentModelCountD
                            /\ resultList' = Append(resultList,
                                 [ modelId     |-> mp.modelId,
                                   searchId    |-> targetId,
                                   parentId    |-> parentId,
                                   matchId     |-> matchD.queryId,
                                   matchDB     |-> "COD",
                                   modelPath   |-> mp.modelPath,
                                   rFactor     |-> matchD.rValue,
                                   hasDisorder |-> matchD.hasDisorder,
                                   variantType |-> w.variantType ])
                       ELSE UNCHANGED <<parentModelCountD, resultList, codFiles>>
    /\ UNCHANGED <<idxIdL, successList, ret>>
    /\ UNCHANGED <<asmVars, today, otherVars>>

\* the end of dataList: return successList, resultList, []  (line 248)
FinishBuild ==
    /\ pc \in {"begin", "loop"}
    /\ pc' = "returned"
    /\ successList' = EndOfIdxId
    /\ ret' = <<EndOfIdxId, resultList, <<>>>>
    /\ UNCHANGED <<idxIdL, cur, parentModelCountD, resultList, codFiles>>
    /\ UNCHANGED <<asmVars, today, otherVars>>

--------------------------------------------------------------------------
(* The inputs of assemble: a model index with its model files, as a build  *)
(* run leaves them, and the audit details of the published models.         *)

\* bounds: the entries of the index and the prior audit records, over all
\* parents
MaxModels == 2
MaxPrior == 2

MatchIds == {"AAA", "BBB"}
RFactors == {MaxRFactor - 1, MaxRFactor, MaxRFactor + 1}
VariantTypes == {<<>>, TautomerProtomer}
\* the published models of the first parent: (number, db_name, db_code)
Published ==
    { <<1, "CSD", "AAA">>, <<1, "CSD", "BBB">>, <<2, "CSD", "AAA">>,
      <<2, "CSD", "BBB">>, <<3, "COD", "AAA">> }
\* and of the second parent
OtherPublished == { <<2, "CSD", "AAA">> }
Days == {101, 102}

\* what a build run found for one match
MatchChoices ==
    [matchId : MatchIds, variantType : VariantTypes, rFactor : RFactors]

\* the second parent has at most one model, a variant of small R factor
OtherMatchChoices ==
    [matchId : {"AAA"}, variantType : {TautomerProtomer},
     rFactor : {MaxRFactor - 1}]

\* the index entries of one parent: the i-th accepted match has the local
\* identifier M_<parent>_<i> (ChemCompModelBuildWorker.build, lines 126-140,
\* with the variantType the COD worker records)
IndexEntries(parentId, matches) ==
    [i \in 1..Len(matches) |->
        [ modelId     |-> MakeModelId(parentId, i),
          matchId     |-> matches[i].matchId,
          rFactor     |-> matches[i].rFactor,
          variantType |-> matches[i].variantType,
          modelPath   |-> MakeModelPath(parentId, MakeModelId(parentId, i)) ]]

\* the model files of these entries, written on day 100
FilesOf(parentId, entries) ==
    [path \in {entries[i].modelPath : i \in 1..Len(entries)} |->
        LET i == CHOOSE i \in 1..Len(entries) : entries[i].modelPath = path
        IN  << WrittenContainer(entries[i].modelId, parentId,
                                entries[i].matchId, entries[i].rFactor,
                                entries[i].variantType, 100) >>]

\* one record of ChemCompModelProvider.getAuditDetails(): the published
\* model M_<parent>_<num> has num audit rows, the last one the most recent
PriorRecord(parentId, pub) ==
    [ model_id   |-> MakePublicModelId(parentId, pub[1]),
      db_name    |-> pub[2],
      db_code    |-> pub[3],
      audit_list |-> [k \in 1..pub[1] |->
                        [audit_date |-> 10 * pub[1] + k,
                         action_type |-> IF k = 1 THEN "Initial release"
                                         ELSE "Modify"]] ]

\* published identifiers are distinct, and so are the published matches
PriorLists(parentId, pubs, n) ==
    { [k \in 1..Len(l) |-> PriorRecord(parentId, l[k])] :
        l \in { l \in SeqsUpTo(pubs, n) :
                  \A i, j \in 1..Len(l) :
                     i # j => /\ l[i][1] # l[j][1]
                              /\ <<l[i][2], l[i][3]>> # <<l[j][2], l[j][3]>> } }

\* a dict: the parents with an empty list have no key
DictOf(a, b) ==
    LET d == (ABC :> a) @@ (XYZ :> b)
    IN  [pId \in {p \in {ABC, XYZ} : d[p] # <<>>} |-> d[pId]]

NotRun == [ran |-> FALSE]

\* no single call is followed and no ChemCompModelBuild.build run
NoCall == [op |-> "none"]
NoBuild == [started |-> FALSE]
OthersIdle == call = NoCall /\ ccmBuild = NoBuild

\* the second parent has no model, a model, or a model and a published one
Init ==
    /\ \E ma \in SeqsUpTo(MatchChoices, MaxModels),
          mb \in SeqsUpTo(OtherMatchChoices, 1),
          pa \in PriorLists(ABC, Published, MaxPrior),
          pb \in PriorLists(XYZ, OtherPublished, 1) :
          /\ Len(ma) + Len(mb) <= MaxModels
          /\ Len(pa) + Len(pb) <= MaxPrior
          /\ Len(pb) <= Len(mb)
          /\ modelIndex = DictOf(IndexEntries(ABC, ma), IndexEntries(XYZ, mb))
          /\ modelFiles = FilesOf(ABC, IndexEntries(ABC, ma))
                          @@ FilesOf(XYZ, IndexEntries(XYZ, mb))
          /\ priorAudit = DictOf(pa, pb)
    /\ today = 101
    /\ asm = NotRun
    /\ BuildIdle
    /\ OthersIdle

\* ChemCompModelAssemble.assemble(maxRFactor): the whole call; the
\* concatenated file is named after the day of the run, and doExport
\* returns one of the outcomes (line 105)
AssembleRun(outcomes) ==
    /\ LET selL == Selected(modelIndex, priorAudit, MaxRFactor)
           out  == Relabel(RelabelStart, ImportAll(selL, modelFiles),
                           1, PriorMapD(selL)).out
       IN  \E exportOk \in outcomes :
              asm' = [ ran |-> TRUE,
                       path |-> today,
                       imported |-> selL,
                       dataContainerL |-> out,
                       exported |-> exportOk,
                       count |-> Len(out) ]
    /\ UNCHANGED <<modelIndex, modelFiles, priorAudit, today>>
    /\ UNCHANGED <<buildVars, otherVars>>

\* a call in which doExport writes the concatenated file
Assemble == AssembleRun({TRUE})

\* a day passes after a run
Tick ==
    /\ asm.ran
    /\ today + 1 \in Days
    /\ today' = today + 1
    /\ UNCHANGED <<modelIndex, modelFiles, priorAudit, asm>>
    /\ UNCHANGED <<buildVars, otherVars>>

Next == Assemble \/ Tick

Spec == Init /\ [][Next]_vars

\* a call of CODModelBuildWorker.build; nothing is assembled meanwhile
BuildInit ==
    /\ modelIndex = <<>>
    /\ modelFiles = <<>>
    /\ priorAudit = <<>>
    /\ today = 101
    /\ asm = NotRun
    /\ BuildIdle
    /\ OthersIdle

\* an exception in the body of the loop outside the call of the aligner
\* (the target molecule cannot be obtained: oeTargetObj is None at line
\* 100, or matchD lacks a key): the except clause of build logs it and
\* build returns [], [], []  (lines 249-251)
CandidateRaises ==
    /\ pc \in {"begin", "loop"}
    /\ cur.matchD.queryId < MaxMatches
    /\ pc' = "raised"
    /\ ret' = << <<>>, <<>>, <<>> >>
    /\ UNCHANGED <<idxIdL, cur, parentModelCountD, resultList, successList,
                   codFiles>>
    /\ UNCHANGED <<asmVars, today, otherVars>>

BuildNext == NextMatch \/ Align \/ Judge \/ FinishBuild \/ CandidateRaises

BuildSpec == BuildInit /\ [][BuildNext]_vars

--------------------------------------------------------------------------
(* Properties of assemble                                                  *)

\* the prior audit records of a parent
PriorOf(pId) ==
    IF pId \in DOMAIN priorAudit
    THEN {priorAudit[pId][i] : i \in 1..Len(priorAudit[pId])}
    ELSE {}

\* the sequence number of an identifier M_<parent>_<NNNNN>
SeqNum(modelId) == ParseInt(Split(modelId, "_")[3])

\* the date of the last audit row of a container
LastAuditDate(dataContainer) ==
    dataContainer.audit[Len(dataContainer.audit)].date

\* the positions of the output of the last run; the k-th container of the
\* output comes from the file of the k-th imported model
OutIdx == IF asm.ran THEN 1..Len(asm.dataContainerL) ELSE {}

\* the k-th model of the output carries a reused (prior) identifier
Reused(k) == ~StartsWith(asm.imported[k].priorModelId, "Z")

\* the models of a parent as assemble orders them
SortedOf(pId) ==
    SortedModels(UpdateVariantDetails(
                    AddPriorMatchDetails(modelIndex, priorAudit))[pId])

\* the local identifiers of the imported models
ImportedIds == {asm.imported[k].modelId : k \in OutIdx}

\* C1: every model of the output whose (source database, matchId) is the
\* (db_name, db_code) of a prior audit record of its parent is emitted under
\* that record's model_id, and its last audit row has that record's most
\* recent audit date, for any number of prior records.
PriorIdentifierAndDateReused ==
    \A k \in OutIdx :
        LET c == asm.dataContainerL[k]
        IN  \A p \in PriorOf(c.comp_id) :
               (p.db_name = c.db_name /\ p.db_code = c.db_code)
               => /\ c.name = p.model_id
                  /\ LastAuditDate(c)
                       = p.audit_list[Len(p.audit_list)].audit_date

\* a model that matches the first of two prior records of its parent is in
\* the output
PriorMatchBeforeAnotherRecord ==
    \E k \in OutIdx :
        LET c == asm.dataContainerL[k]
        IN  /\ c.comp_id \in DOMAIN priorAudit
            /\ Len(priorAudit[c.comp_id]) >= 2
            /\ priorAudit[c.comp_id][1].db_name = c.db_name
            /\ priorAudit[c.comp_id][1].db_code = c.db_code

\* C2: the sequence numbers that one run assigns to the models of a parent
\* are distinct, and every freshly minted number is greater than every
\* number reused from a prior record of that parent in that run.
PublicNumbersDistinctAndFreshAbove ==
    \A j, k \in OutIdx :
        (j # k /\ asm.dataContainerL[j].comp_id = asm.dataContainerL[k].comp_id)
        => /\ SeqNum(asm.dataContainerL[j].name)
                # SeqNum(asm.dataContainerL[k].name)
           /\ (~Reused(j) /\ Reused(k))
               => SeqNum(asm.dataContainerL[j].name)
                    > SeqNum(asm.dataContainerL[k].name)

\* two models of one parent and one match are both in the output, and the
\* match has a prior record
TwoModelsOfOnePriorMatch ==
    \E j, k \in OutIdx :
        /\ j # k
        /\ asm.dataContainerL[j].comp_id = asm.dataContainerL[k].comp_id
        /\ asm.dataContainerL[j].db_code = asm.dataContainerL[k].db_code
        /\ Reused(j) /\ Reused(k)

\* C3: the number of a freshly minted identifier is greater than every
\* sequence number of the prior audit records of its parent, whether or not
\* the match of the prior record is in the model index.
FreshNumberAbovePublished ==
    \A k \in OutIdx :
        ~Reused(k) =>
            \A p \in PriorOf(asm.dataContainerL[k].comp_id) :
                SeqNum(asm.dataContainerL[k].name) > SeqNum(p.model_id)

\* a fresh identifier is minted for a parent that has a prior record whose
\* match is not in the model index
FreshBesideAbsentPrior ==
    \E k \in OutIdx :
        /\ ~Reused(k)
        /\ \E p \in PriorOf(asm.dataContainerL[k].comp_id) :
              \A i \in 1..Len(modelIndex[asm.dataContainerL[k].comp_id]) :
                 modelIndex[asm.dataContainerL[k].comp_id][i].matchId
                    # p.db_code

\* the public identifiers and audit dates of a run, by local identifier
Assigned(run) ==
    [k \in 1..Len(run.dataContainerL) |->
        << run.imported[k].modelId, run.dataContainerL[k].name,
           run.dataContainerL[k].ids, run.dataContainerL[k].audit >>]

\* C4: a run of assemble on the model index, model files and prior audit
\* records of the run before it assigns the same public identifier and the
\* same audit dates to every model.
AssembleIdempotent ==
    [][(asm.ran /\ asm'.ran) => Assigned(asm') = Assigned(asm)]_vars

\* a second run, on a later day, has emitted a model under a prior
\* identifier and another under a fresh one
SecondRunReusedAndFresh ==
    /\ asm.ran
    /\ asm.path > 101
    /\ \E j, k \in OutIdx : Reused(j) /\ ~Reused(k)

\* C5: if the output contains a canonical model of a parent, it contains no
\* tautomer_protomer model of that parent.
CanonicalSupremacy ==
    \A j, k \in OutIdx :
        (/\ asm.dataContainerL[j].comp_id = asm.dataContainerL[k].comp_id
         /\ asm.dataContainerL[j].variant = <<>>)
        => asm.dataContainerL[k].variant # TautomerProtomer

\* a tautomer_protomer model with a prior identifier is in the output and
\* its parent has a canonical model of acceptable R factor
PriorVariantBesideCanonical ==
    \E k \in OutIdx :
        /\ Reused(k)
        /\ asm.dataContainerL[k].variant = TautomerProtomer
        /\ \E i \in 1..Len(modelIndex[asm.dataContainerL[k].comp_id]) :
              LET mD == modelIndex[asm.dataContainerL[k].comp_id][i]
              IN  mD.variantType = <<>> /\ mD.rFactor <= MaxRFactor

\* C6: of two models of one parent with the same matchId, only the one that
\* comes first in the sort order of assemble can be in the output.
DuplicateMatchSuppressed ==
    asm.ran =>
        \A pId \in DOMAIN modelIndex :
            LET mDLS == SortedOf(pId)
            IN  \A i, j \in 1..Len(mDLS) :
                   (i < j /\ mDLS[i].matchId = mDLS[j].matchId)
                   => mDLS[j].modelId \notin ImportedIds

\* the index has two models of one parent with the same matchId, and a run
\* has been made
RanWithDuplicateMatch ==
    /\ asm.ran
    /\ \E pId \in DOMAIN modelIndex :
          \E i, j \in 1..Len(modelIndex[pId]) :
             i # j /\ modelIndex[pId][i].matchId = modelIndex[pId][j].matchId

\* the j-th model of a sorted list is not standard and a standard one comes
\* before it: the variant rule of assemble rejects it
AfterStandard(mDLS, j) ==
    /\ ~StartsWith(mDLS[j].variantType, "A")
    /\ \E i \in 1..(j - 1) : StartsWith(mDLS[i].variantType, "A")

\* C7: no model with an R factor above maxRFactor is in the output, and a
\* model whose R factor equals maxRFactor is not rejected for its R factor:
\* it is in the output unless the variant rule rejects it.
RFactorLimit ==
    asm.ran =>
        /\ \A k \in OutIdx : asm.dataContainerL[k].r_factor <= MaxRFactor
        /\ \A pId \in DOMAIN modelIndex :
              LET mDLS == SortedOf(pId)
              IN  \A j \in 1..Len(mDLS) :
                     (mDLS[j].rFactor = MaxRFactor /\ ~AfterStandard(mDLS, j))
                     => mDLS[j].modelId \in ImportedIds

\* a run has kept a model whose R factor is maxRFactor and has skipped one
\* whose R factor is above it
KeptAtLimitSkippedAbove ==
    /\ \E k \in OutIdx : asm.dataContainerL[k].r_factor = MaxRFactor
    /\ \E pId \in DOMAIN modelIndex :
          \E i \in 1..Len(modelIndex[pId]) :
             /\ modelIndex[pId][i].rFactor > MaxRFactor
             /\ modelIndex[pId][i].modelId \notin ImportedIds

--------------------------------------------------------------------------
(* Properties of CODModelBuildWorker.build                                 *)

\* the current match has been aligned and judged
Judged == pc \in {"loop", "returned"} /\ cur.targetObj

\* the alignment gave descriptors, it is not the values of a failed one
Aligned == DOMAIN cur.aln.refFD # {}

\* len(atomMap)
MapLen == Cardinality(DOMAIN cur.aln.fitXyzMapD)

SmilesEqual == cur.aln.refFD.SMILES_STEREO = cur.aln.fitFD.SMILES_STEREO

\* the result list has a record of the current match
Recorded ==
    \E i \in 1..Len(resultList) : resultList[i].matchId = cur.matchD.queryId

CurRecord ==
    resultList[CHOOSE i \in 1..Len(resultList) :
                  resultList[i].matchId = cur.matchD.queryId]

\* the unmapped fit atoms are hydrogens
OnlyProtonsUnMapped ==
    \A i \in 1..Len(cur.aln.fitAtomUnMappedL) :
        cur.aln.fitAtomUnMappedL[i].fitAtNo = 1

\* every neighbor of an unmapped fit atom is a mapped fit atom
UnMappedOnMapped ==
    \A i \in 1..Len(cur.aln.fitAtomUnMappedL) :
        \A j \in 1..Len(cur.aln.fitAtomUnMappedL[i].fitNeighbors) :
            \E refAtName \in DOMAIN cur.aln.fitXyzMapD :
                cur.aln.fitXyzMapD[refAtName].atName
                    = cur.aln.fitAtomUnMappedL[i].fitNeighbors[j]

\* the build type of the target is that of a tautomer or a protomer
VariantTarget ==
    GetIndexEntry(cur.matchD.ccId).buildType \in {Tautomer, Protomer}

\* C8 as stated: an alignment with nAtomsRef = len(atomMap) and equal
\* SMILES_STEREO gives a model record with the canonical (empty)
\* variantType, whatever the unmapped fit atoms are.
CoveredSmilesMatchAcceptedCanonical ==
    (Judged /\ Aligned /\ cur.aln.nAtomsRef = MapLen /\ SmilesEqual)
    => (Recorded /\ CurRecord.variantType = <<>>)

\* C8, amended: for an alignment with nAtomsRef = len(atomMap) and equal
\* SMILES_STEREO the acceptance tests pass exactly if the atom map has at
\* least 2 entries; the model is exported exactly if moreover every
\* unmapped fit atom is a hydrogen whose neighbors are mapped and the fit
\* descriptors are complete; a record is produced exactly if the export
\* succeeds; its variantType is canonical only if there is no unmapped atom
\* and the target is not a tautomer or protomer, else tautomer_protomer.
CoveredSmilesMatchOutcome ==
    (Judged /\ Aligned /\ cur.aln.nAtomsRef = MapLen /\ SmilesEqual)
    => /\ cur.acceptOk <=> MapLen >= 2
       /\ (cur.export # "none")
            <=> /\ MapLen >= 2
                /\ OnlyProtonsUnMapped
                /\ UnMappedOnMapped
                /\ KList \subseteq DOMAIN cur.aln.fitFD
       /\ Recorded <=> cur.export = "ok"
       /\ Recorded =>
            CurRecord.variantType =
               IF cur.aln.fitAtomUnMappedL = <<>> /\ ~VariantTarget
               THEN <<>> ELSE TautomerProtomer

\* a covered alignment with equal SMILES_STEREO and unmapped hydrogens of a
\* target that is no variant is recorded as tautomer_protomer
CoveredWithProtonsRecordedAsVariant ==
    /\ Judged /\ Aligned /\ cur.aln.nAtomsRef = MapLen /\ SmilesEqual
    /\ cur.aln.fitAtomUnMappedL # <<>>
    /\ ~VariantTarget
    /\ Recorded
    /\ CurRecord.variantType = TautomerProtomer

\* C9: an alignment with an unmapped fit atom whose atomic number is not 1
\* gives no model record, whichever acceptance test it passes.
HeavyUnMappedNotRecorded ==
    (Judged /\ ~OnlyProtonsUnMapped) => ~Recorded

\* an alignment that passes the acceptance tests and has an unmapped oxygen
\* has been judged
AcceptedWithHeavyUnMapped ==
    /\ Judged /\ Aligned /\ cur.acceptOk
    /\ ~OnlyProtonsUnMapped
    /\ ~Recorded

\* C10: an alignment whose atom map has fewer than 2 entries is rejected,
\* whatever its atom counts, SMILES and unmapped atoms are.
ShortMapRejected ==
    (Judged /\ MapLen < 2)
    => /\ ~cur.acceptOk
       /\ cur.export = "none"
       /\ ~Recorded

\* an alignment that maps the one atom of its reference, with equal
\* SMILES_STEREO, no unmapped atom and complete descriptors, has been judged
OneAtomMapJudged ==
    /\ Judged /\ Aligned
    /\ MapLen = 1 /\ cur.aln.nAtomsRef = 1
    /\ SmilesEqual
    /\ cur.aln.fitAtomUnMappedL = <<>>
    /\ KList \subseteq DOMAIN cur.aln.fitFD
    /\ ~Recorded

\* C11: for an alignment with nAtomsRef = len(atomMap) >= 2 and unmapped
\* fit atoms that are all hydrogens: if every neighbor of every unmapped
\* atom is a mapped atom, the acceptance tests pass, the model is exported
\* when the fit descriptors are complete and its record has the variantType
\* tautomer_protomer; if a neighbor of an unmapped atom is unmapped, nothing
\* is exported and no record is produced.
UnMappedProtonsByNeighbors ==
    ( /\ Judged /\ Aligned
      /\ cur.aln.nAtomsRef = MapLen /\ MapLen >= 2
      /\ cur.aln.fitAtomUnMappedL # <<>>
      /\ OnlyProtonsUnMapped )
    => IF UnMappedOnMapped
       THEN /\ cur.acceptOk
            /\ (KList \subseteq DOMAIN cur.aln.fitFD) => cur.export # "none"
            /\ cur.export = "ok" => Recorded
            /\ Recorded => CurRecord.variantType = TautomerProtomer
       ELSE /\ cur.export = "none"
            /\ ~Recorded

\* a covered alignment with a proton on an unmapped atom has passed the
\* acceptance tests and has no record
ProtonOnUnMappedNeighborJudged ==
    /\ Judged /\ Aligned
    /\ cur.aln.nAtomsRef = MapLen /\ MapLen >= 2
    /\ cur.aln.fitAtomUnMappedL # <<>>
    /\ OnlyProtonsUnMapped
    /\ ~UnMappedOnMapped
    /\ KList \subseteq DOMAIN cur.aln.fitFD
    /\ cur.acceptOk
    /\ ~Recorded

\* the ordered rules of the acceptance of an alignment
RulesAccept ==
    /\ ~(cur.aln.nAtomsRef = 0 /\ cur.aln.nAtomsFit = 0)
    /\ ~cur.aln.isSkipped
    /\ MapLen >= 2
    /\ \/ cur.aln.nAtomsRef = MapLen /\ SmilesEqual
       \/ cur.aln.nAtomsRef > MapLen /\ SmilesEqual
       \/ /\ cur.aln.nAtomsRef = MapLen
          /\ cur.aln.fitAtomUnMappedL # <<>>
          /\ OnlyProtonsUnMapped

\* C12: build passes an alignment on to __writeModel exactly when the
\* ordered rules accept it: the atom counts are not both 0, it is not
\* skipped, the atom map has at least 2 entries, and the reference is
\* covered with equal SMILES, or partly covered with equal SMILES, or
\* covered with unmapped atoms that are all hydrogens.
AcceptedByOrderedRules ==
    Judged => (cur.acceptOk <=> RulesAccept)

\* an alignment accepted by the rule of the unmapped protons alone
AcceptedByProtonRuleOnly ==
    /\ Judged /\ Aligned
    /\ cur.acceptOk
    /\ ~SmilesEqual
    /\ cur.aln.fitAtomUnMappedL # <<>>

--------------------------------------------------------------------------
(* A call of ChemCompModelAssemble.__replaceModelId                        *)

\* nothing is assembled
AsmIdle ==
    /\ modelIndex = <<>>
    /\ modelFiles = <<>>
    /\ priorAudit = <<>>
    /\ today = 101
    /\ asm = NotRun

\* the containers of the model files that assemble imports: written by
\* ChemCompModelBuildWorker.__writeModel for a match with or without an
\* identifier
ReplaceInputs ==
    { WrittenContainer(MakeModelId(parentId, i), parentId, matchId, rFactor,
                       variantType, 100) :
        parentId \in {ABC, XYZ}, i \in 1..MaxModels,
        matchId \in MatchIds \cup {NoIdentifier}, rFactor \in RFactors,
        variantType \in VariantTypes }

\* assemble calls __replaceModelId(dataContainer, tModelId, pModelId) with
\* the name of the container and a public identifier of its parent
\* (lines 89-103)
ReplaceInit ==
    /\ AsmIdle
    /\ BuildIdle
    /\ ccmBuild = NoBuild
    /\ \E dataContainer \in ReplaceInputs, num \in 1..(MaxModels + 1) :
          call = [ op            |-> "replaceModelId",
                   dataContainer |-> dataContainer,
                   oldModelId    |-> dataContainer.name,
                   newModelId    |-> MakePublicModelId(
                                        dataContainer.comp_id, num),
                   returned      |-> FALSE ]

ReplaceCall ==
    /\ call.op = "replaceModelId"
    /\ ~call.returned
    /\ call' = [call EXCEPT
                  !.returned = TRUE,
                  !.dataContainer =
                      ReplaceModelId(@, call.oldModelId, call.newModelId)]
    /\ UNCHANGED <<asmVars, today, buildVars, ccmBuild>>

ReplaceNext == ReplaceCall

ReplaceSpec == ReplaceInit /\ [][ReplaceNext]_vars

\* C13: after a model is relabelled, the name of its container and the
\* model identifier in every category that the model has are the new public
\* identifier, also for a model that lacks one of the categories.
RelabelledInEveryCategory ==
    (call.op = "replaceModelId" /\ call.returned)
    => /\ call.dataContainer.name = call.newModelId
       /\ \A cat \in DOMAIN call.dataContainer.ids :
             call.dataContainer.ids[cat] = call.newModelId

\* a model without the reference category has been relabelled with an
\* identifier that differs from its local one
RelabelledWithoutReference ==
    /\ call.op = "replaceModelId" /\ call.returned
    /\ "pdbx_chem_comp_model_reference" \notin DOMAIN call.dataContainer.ids
    /\ call.newModelId # call.oldModelId

\* C14: the local sequence number that the worker hands to a candidate of
\* a parent is the count so far plus one and is not handed out again:
\* the count of the parent has advanced when the number has been handed
\* out, also when the write of the model fails.
LocalNumberHandedOnce ==
    [][ (pc = "judge" /\ cur'.acceptOk)
        => /\ cur'.modelId =
                CODMakeModelId(cur.matchD.ccId,
                   CountOf(parentModelCountD, cur.matchD.parentId) + 1)
           /\ CountOf(parentModelCountD', cur.matchD.parentId)
                = CountOf(parentModelCountD, cur.matchD.parentId) + 1 ]_vars

\* a candidate has been handed a number and the write of its model failed
NumberHandedWriteFailed ==
    /\ Judged /\ cur.acceptOk
    /\ cur.modelId # <<>>
    /\ cur.export # "ok"

--------------------------------------------------------------------------
(* ChemCompModelBuild.build and its workers                                *)

\* the worker processes of MultiProcUtil.runMulti
Workers == {"w1", "w2"}

\* bound: the search result files (idxPathL) of one run
MaxSearchIds == 2

\* the search ids of the result files "<sId>-index.json": a component, a
\* generated form of it, and another component
CcSearchIds == {ABC, ABCt, XYZ}

\* the identifier of the k-th match of a search result file
CcMatchId(k) == IF k = 1 THEN "AAA" ELSE IF k = 2 THEN "BBB" ELSE "CCC"

\* the test of line 106 of ChemCompModelBuildWorker.build
CcAcceptOk(nAtomsRef, nMapped, smilesMatch, hasUnMapped, unMappedOk) ==
    \/ nAtomsRef <= nMapped /\ hasUnMapped /\ unMappedOk
    \/ nAtomsRef = nMapped /\ smilesMatch

\* ChemCompModelBuildWorker.__writeModel up to the export (lines 403-495):
\* the checks of the unmapped atoms and of the descriptors, and the
\* coordinates fitXyzMapD[atName] of every atom of the reference
CcWriteModelChecks(a) ==
    /\ TestUnMappedProtonation(a.fitAtomUnMappedL)
    /\ a.fitAtomUnMappedL # <<>>
          => NeighborsMapped(a.fitXyzMapD, a.fitAtomUnMappedL)
    /\ KList \subseteq DOMAIN a.fitFD
    /\ \A i \in 1..a.nAtomsRef : RefAtNames[i] \in DOMAIN a.fitXyzMapD

\* what an alignment comes to in the worker: whether the match is accepted,
\* whether __writeModel gets to the export, and whether the fit has
\* unmapped atoms
CcOutcomes ==
    { [ accept  |-> CcAcceptOk(a.nAtomsRef, Cardinality(DOMAIN a.fitXyzMapD),
                       a.refFD.SMILES_STEREO = a.fitFD.SMILES_STEREO,
                       Len(a.fitAtomUnMappedL) > 0,
                       TestUnMappedProtonation(a.fitAtomUnMappedL)),
        checked |-> CcWriteModelChecks(a),
        protons |-> a.fitAtomUnMappedL # <<>> ] : a \in Alignments }

\* the dataList of a worker: result files not given to the other worker
CcDataLists ==
    { q \in [Workers -> SeqsUpTo(CcSearchIds, MaxSearchIds)] :
        /\ Len(q["w1"]) + Len(q["w2"]) <= MaxSearchIds
        /\ \A w1, w2 \in Workers :
              \A i \in 1..Len(q[w1]), j \in 1..Len(q[w2]) :
                 (w1 # w2 \/ i # j) => q[w1][i] # q[w2][j] }

\* ChemCompModelBuild.build up to runMulti (lines 698-715): every worker
\* has its part of idxPathL and starts its first result file
CcBuildInit ==
    /\ AsmIdle
    /\ BuildIdle
    /\ call = NoCall
    /\ \E q \in CcDataLists :
          ccmBuild = [ started       |-> TRUE,
                       dataList      |-> q,
                       startingModel |-> [w \in Workers |-> 1],
                       matchNum      |-> [w \in Workers |-> 0],
                       evaluated     |-> 0,
                       resultList    |-> [w \in Workers |-> <<>>],
                       stored        |-> FALSE ]

\* one iteration of the loop over the matches of the current result file
\* of worker w (lines 87-140)
CcMatch(w) ==
    /\ ccmBuild.started /\ ~ccmBuild.stored
    /\ ccmBuild.dataList[w] # <<>>
    /\ ccmBuild.evaluated < MaxMatches
    /\ \E o \in CcOutcomes, exportOk \in BOOLEAN :
         LET sId       == Head(ccmBuild.dataList[w])
             parentId  == Split(sId, "|")[1]
             matchId   == CcMatchId(ccmBuild.matchNum[w] + 1)
             modelId   == MakeModelId(parentId, ccmBuild.startingModel[w])
             modelPath == MakeModelPath(parentId, modelId)
             variantType == IF o.protons THEN TautomerProtomer
                            ELSE GetBuildVariant(sId)
             ok        == o.checked /\ exportOk
             seen      == [ccmBuild EXCEPT !.matchNum[w] = @ + 1,
                                           !.evaluated = @ + 1]
         IN  IF ~o.accept
             THEN /\ ccmBuild' = seen
                  /\ UNCHANGED modelFiles
             ELSE /\ ccmBuild' =
                       [seen EXCEPT
                          !.startingModel[w] = @ + 1,
                          !.resultList[w] =
                              IF ok
                              THEN Append(@,
                                     [ modelId     |-> modelId,
                                       searchId    |-> sId,
                                       parentId    |-> parentId,
                                       matchId     |-> matchId,
                                       modelPath   |-> modelPath,
                                       rFactor     |-> MaxRFactor - 1,
                                       hasDisorder |-> FALSE ])
                              ELSE @]
                  /\ modelFiles' =
                       IF ok
                       THEN (modelPath :>
                               << WrittenContainer(modelId, parentId, matchId,
                                     MaxRFactor - 1, variantType, today) >>)
                            @@ modelFiles
                       ELSE modelFiles
    /\ UNCHANGED <<modelIndex, priorAudit, asm, today, buildVars, call>>

\* the end of the loop over the matches of a result file; the next file
\* starts with startingModel = 1 (lines 74-86)
CcNextIdxPath(w) ==
    /\ ccmBuild.started /\ ~ccmBuild.stored
    /\ ccmBuild.dataList[w] # <<>>
    /\ ccmBuild' = [ccmBuild EXCEPT
                      !.dataList[w] = Tail(@),
                      !.startingModel[w] = 1,
                      !.matchNum[w] = 0]
    /\ UNCHANGED <<asmVars, today, buildVars, call>>

\* retD.setdefault(tD["parentId"], []).append(tD) for the records tD of a
\* list (lines 718-719)
RECURSIVE RetD(_, _)
RetD(successList_, k) ==
    IF k = 0 THEN <<>>
    ELSE LET retD == RetD(successList_, k - 1)
             tD   == successList_[k]
         IN  (tD.parentId :> Append(ListOf(retD, tD.parentId), tD)) @@ retD

\* an index file that is written only when the index has an entry
StoreModelIndexIfAny(old, mD) == IF mD = <<>> THEN old ELSE mD

\* storeModelIndex: doExport(fp, mD, fmt="json") replaces the content old
\* of the index file by the object mD, whose keys are strings
StoreModelIndex(old, mD) == mD

\* the workers have returned: the result lists are merged, the index is
\* stored and build returns it (lines 715-728)
CcStore ==
    /\ ccmBuild.started /\ ~ccmBuild.stored
    /\ \A w \in Workers : ccmBuild.dataList[w] = <<>>
    /\ LET merged == ccmBuild.resultList["w1"] \o ccmBuild.resultList["w2"]
           retD   == RetD(merged, Len(merged))
       IN  /\ modelIndex' = StoreModelIndex(modelIndex, retD)
           /\ call' = [op |-> "build", retD |-> retD]
    /\ ccmBuild' = [ccmBuild EXCEPT !.stored = TRUE]
    /\ UNCHANGED <<modelFiles, priorAudit, asm, today, buildVars>>

CcBuildNext ==
    \/ \E w \in Workers : CcMatch(w)
    \/ \E w \in Workers : CcNextIdxPath(w)
    \/ CcStore

CcBuildSpec == CcBuildInit /\ [][CcBuildNext]_vars

\* the records of the workers of the run
CcRecords ==
    IF ccmBuild.started
    THEN { <<w, i>> : w \in Workers, i \in 1..MaxMatches }
    ELSE {}

CcRecordAt(r) == ccmBuild.resultList[r[1]][r[2]]

CcHasRecord(r) == r[2] <= Len(ccmBuild.resultList[r[1]])

\* C15: no two result records of one run share a modelId or a modelPath,
\* also when they come from different search ids of one parent, in one
\* worker or in two.
LocalIdentifiersDistinct ==
    \A r1, r2 \in CcRecords :
        (CcHasRecord(r1) /\ CcHasRecord(r2) /\ r1 # r2)
        => /\ CcRecordAt(r1).modelId # CcRecordAt(r2).modelId
           /\ CcRecordAt(r1).modelPath # CcRecordAt(r2).modelPath

\* the run has records from two search ids of one parent
TwoSearchIdsOfOneParentRecorded ==
    \E r1, r2 \in CcRecords :
        /\ CcHasRecord(r1) /\ CcHasRecord(r2)
        /\ CcRecordAt(r1).searchId # CcRecordAt(r2).searchId
        /\ CcRecordAt(r1).parentId = CcRecordAt(r2).parentId

\* the fields of an index entry that assemble reads (lines 56-81, 123-158)
AssembleFields == {"modelId", "matchId", "rFactor", "variantType", "modelPath"}

\* C16: every entry of the index that build stores has every field that
\* assemble reads from an entry.
StoredEntriesHaveAssembleFields ==
    (ccmBuild.started /\ ccmBuild.stored)
    => \A pId \in DOMAIN modelIndex :
          \A i \in 1..Len(modelIndex[pId]) :
             AssembleFields \subseteq DOMAIN modelIndex[pId][i]

\* an index with an entry has been stored
IndexWithEntryStored ==
    /\ ccmBuild.started /\ ccmBuild.stored
    /\ modelIndex # <<>>

--------------------------------------------------------------------------
(* A call of CODModelBuildWorker.__writeModel                              *)

\* the type symbols of the atoms of RefAtNames
RefAtTypes == <<"C", "C", "O", "N", "C", "C">>

\* the type symbols of the atoms of a reference molecule: without
\* hydrogens, with hydrogens at the end, and with hydrogens among others
RefTypeChoices ==
    { RefAtTypes,
      <<"C", "C", "H", "H", "H", "H">>,
      <<"C", "H", "O", "H", "C", "H">> }

\* bound: the atoms of the reference molecule of a call of __writeModel
MaxRefAtoms == 4

\* the bonds of a reference molecule of n atoms: a chain, and a bond
\* that closes a ring over the first three atoms
RefBonds(n) ==
    [i \in 1..(n - 1) |->
        [atom_id_1 |-> RefAtNames[i], atom_id_2 |-> RefAtNames[i + 1],
         value_order |-> "SING"]]
    \o (IF n >= 3
        THEN << [atom_id_1 |-> RefAtNames[1], atom_id_2 |-> RefAtNames[3],
                 value_order |-> "DOUB"] >>
        ELSE <<>>)

\* targetObj: the chem_comp_atom and chem_comp_bond categories of the
\* definition of a component of n atoms
TargetObj(n, types) ==
    [ chem_comp_atom |->
          [i \in 1..n |-> [atom_id |-> RefAtNames[i],
                           type_symbol |-> types[i]]],
      chem_comp_bond |-> RefBonds(n) ]

\* hAtomPrefix + str(jj)
HexNames == <<"HEX0", "HEX1", "HEX2", "HEX3", "HEX4">>
HexName(jj) == HexNames[jj + 1]

\* DataCategory.setValue(..., rowIndex) for the values of one row: the
\* row of that index is made if the category ends before it, else its
\* values are replaced
SetRow(rows, rowIndex, row) ==
    IF rowIndex < Len(rows) THEN [rows EXCEPT ![rowIndex + 1] = row]
    ELSE Append(rows, row)

\* the loop over the atoms of the reference (lines 539-559)
RECURSIVE MappedAtomRows(_, _, _, _)
MappedAtomRows(rows, cObj, ii, fitXyzMapD) ==
    IF ii >= Len(cObj) THEN rows
    ELSE LET atName == cObj[ii + 1].atom_id
             jj     == Len(rows)
         IN  IF atName \notin DOMAIN fitXyzMapD
             THEN MappedAtomRows(rows, cObj, ii + 1, fitXyzMapD)
             ELSE MappedAtomRows(
                     SetRow(rows, jj,
                        [atom_id     |-> atName,
                         type_symbol |-> cObj[ii + 1].type_symbol,
                         ordinal_id  |-> jj + 1]),
                     cObj, ii + 1, fitXyzMapD)

\* the loop over the unmapped atoms (lines 563-573): ii is the row count
\* before the loop
RECURSIVE UnMappedAtomRows(_, _, _, _)
UnMappedAtomRows(rows, ii, fitAtomUnMappedL, jj) ==
    IF jj >= Len(fitAtomUnMappedL) THEN rows
    ELSE UnMappedAtomRows(
            SetRow(rows, ii,
               [atom_id     |-> HexName(jj),
                type_symbol |-> fitAtomUnMappedL[jj + 1].fitAtType,
                ordinal_id  |-> ii + 1]),
            ii, fitAtomUnMappedL, jj + 1)

\* the loop over the bonds of the reference (lines 583-598)
RECURSIVE MappedBondRows(_, _, _, _)
MappedBondRows(rows, cObj, ii, fitXyzMapD) ==
    IF ii >= Len(cObj) THEN rows
    ELSE LET b  == cObj[ii + 1]
             jj == Len(rows)
         IN  IF b.atom_id_1 \notin DOMAIN fitXyzMapD
                \/ b.atom_id_2 \notin DOMAIN fitXyzMapD
             THEN MappedBondRows(rows, cObj, ii + 1, fitXyzMapD)
             ELSE MappedBondRows(
                     SetRow(rows, jj,
                        [atom_id_1   |-> b.atom_id_1,
                         atom_id_2   |-> b.atom_id_2,
                         value_order |-> b.value_order,
                         ordinal_id  |-> jj + 1]),
                     cObj, ii + 1, fitXyzMapD)

\* fitAtMapD[fAtTup.atName] = refAtName  (lines 481-483)
FitAtMapD(fitXyzMapD) ==
    [atName \in {fitXyzMapD[r].atName : r \in DOMAIN fitXyzMapD} |->
        CHOOSE r \in DOMAIN fitXyzMapD : fitXyzMapD[r].atName = atName]

\* the loop over the neighbors of one unmapped atom (lines 603-609)
RECURSIVE NeighborBondRows(_, _, _, _, _, _)
NeighborBondRows(rows, ii, at1, fitNeighbors, k, fitAtMapD) ==
    IF k > Len(fitNeighbors) THEN rows
    ELSE NeighborBondRows(
            SetRow(rows, ii,
               [atom_id_1   |-> at1,
                atom_id_2   |-> fitAtMapD[fitNeighbors[k]],
                value_order |-> "SING",
                ordinal_id  |-> ii + 1]),
            ii, at1, fitNeighbors, k + 1, fitAtMapD)

\* the loop over the unmapped atoms (lines 600-609): ii is the row count
\* before the loop
RECURSIVE UnMappedBondRows(_, _, _, _, _)
UnMappedBondRows(rows, ii, fitAtomUnMappedL, jj, fitAtMapD) ==
    IF jj >= Len(fitAtomUnMappedL) THEN rows
    ELSE UnMappedBondRows(
            NeighborBondRows(rows, ii, HexName(jj),
                             fitAtomUnMappedL[jj + 1].fitNeighbors, 1,
                             fitAtMapD),
            ii, fitAtomUnMappedL, jj + 1, fitAtMapD)

\* unMappedTypeD after the loop over the atoms of the reference: the
\* number of atoms of every type symbol that are not in fitXyzMapD
\* (lines 540-545)
UnMappedTypeD(cObj, fitXyzMapD) ==
    LET unMapped == {i \in 1..Len(cObj) : cObj[i].atom_id \notin DOMAIN fitXyzMapD}
    IN  [atType \in {cObj[i].type_symbol : i \in unMapped} |->
            Cardinality({i \in unMapped : cObj[i].type_symbol = atType})]

\* the flag of a model whose unmapped atoms are all of one type
FeaturesOfOneType(unMappedTypeD) ==
    IF Cardinality(DOMAIN unMappedTypeD) = 1
    THEN {"heavy_atoms_only"}
    ELSE {"all_atoms_have_sites"}

\* the keys heavy_atoms_only and all_atoms_have_sites of featureD, which
\* are written with the value Y (lines 685-689, 706-713)
Features(unMappedTypeD) ==
    IF Cardinality(DOMAIN unMappedTypeD) = 1 /\ "H" \in DOMAIN unMappedTypeD
    THEN {"heavy_atoms_only"}
    ELSE {"all_atoms_have_sites"}

\* CODModelBuildWorker.__writeModel up to the export: the checks, and the
\* container with its atom, bond and feature categories
CODWriteModel(targetId, targetObj, fitFD, fitXyzMapD, fitAtomUnMappedL, matchD, modelId, date) ==
    LET w == WriteModelChecks(targetId, fitFD, fitXyzMapD, fitAtomUnMappedL)
    IN  IF ~w.ok THEN [ok |-> FALSE, variantType |-> w.variantType]
        ELSE LET atoms == MappedAtomRows(<<>>, targetObj.chem_comp_atom, 0,
                                         fitXyzMapD)
                 bonds == MappedBondRows(<<>>, targetObj.chem_comp_bond, 0,
                                         fitXyzMapD)
             IN  [ ok |-> TRUE,
                   variantType |-> w.variantType,
                   dataContainer |->
                     [ atom |-> UnMappedAtomRows(atoms, Len(atoms),
                                                 fitAtomUnMappedL, 0),
                       bond |-> UnMappedBondRows(bonds, Len(bonds),
                                   fitAtomUnMappedL, 0,
                                   FitAtMapD(fitXyzMapD)),
                       feature |-> Features(UnMappedTypeD(
                                      targetObj.chem_comp_atom, fitXyzMapD)) ]
                     @@ CODWrittenContainer(modelId, targetId, matchD,
                                            w.variantType, date) ]

\* the unmapped atoms of a fit molecule: a hydrogen on the first fit
\* atom, one between the first two fit atoms, one on a fit atom that is
\* never mapped, an oxygen, and a hydrogen with no recorded neighbor
WriteUnMappedChoices ==
    { [fitAtNo |-> 1, fitAtType |-> "H", fitAtName |-> "h1",
       fitNeighbors |-> <<FitAtNames[1]>>],
      [fitAtNo |-> 1, fitAtType |-> "H", fitAtName |-> "h3",
       fitNeighbors |-> <<FitAtNames[2], FitAtNames[1]>>],
      [fitAtNo |-> 1, fitAtType |-> "H", fitAtName |-> "h2",
       fitNeighbors |-> <<"o9">>],
      [fitAtNo |-> 8, fitAtType |-> "O", fitAtName |-> "o9",
       fitNeighbors |-> <<FitAtNames[1]>>],
      [fitAtNo |-> 1, fitAtType |-> "H", fitAtName |-> "h4",
       fitNeighbors |-> <<>>] }

\* atomMapD of an alignment that maps the reference atoms of the
\* positions in S
FitXyzMapOf(S) ==
    [refAtName \in {RefAtNames[i] : i \in S} |->
        [atName |-> FitAtNames[CHOOSE i \in S : RefAtNames[i] = refAtName]]]

\* build calls __writeModel for an accepted alignment (line 212): the atom
\* map has at least 2 entries
WriteInit ==
    /\ AsmIdle
    /\ BuildIdle
    /\ ccmBuild = NoBuild
    /\ \E nAtomsRef \in 1..MaxRefAtoms, targetId \in {ABC, ABCt},
          keys \in FitKeyChoices, types \in RefTypeChoices,
          unL \in SeqsUpTo(WriteUnMappedChoices, MaxUnMapped) :
          \E S \in SUBSET (1..nAtomsRef) :
             /\ Cardinality(S) >= 2
             /\ call = [ op               |-> "writeModel",
                         targetId         |-> targetId,
                         targetObj        |-> TargetObj(nAtomsRef, types),
                         fitFD            |-> [k \in keys |-> k],
                         fitXyzMapD       |-> FitXyzMapOf(S),
                         fitAtomUnMappedL |-> unL,
                         matchD           |-> MatchD(1, targetId),
                         modelId          |-> CODMakeModelId(targetId, 1),
                         returned         |-> FALSE ]

\* the call: the container is exported if the checks pass and the
\* marshaller succeeds; __writeModel returns ok, variantType
WriteCall ==
    /\ call.op = "writeModel"
    /\ ~call.returned
    /\ LET r == CODWriteModel(call.targetId, call.targetObj, call.fitFD,
                   call.fitXyzMapD, call.fitAtomUnMappedL, call.matchD,
                   call.modelId, today)
       IN  \E exportOk \in (IF r.ok THEN BOOLEAN ELSE {FALSE}) :
              call' = [ returned    |-> TRUE,
                        ok          |-> exportOk,
                        variantType |-> r.variantType,
                        exported    |-> IF exportOk THEN <<r.dataContainer>>
                                        ELSE <<>> ]
                      @@ call
    /\ UNCHANGED <<asmVars, today, buildVars, ccmBuild>>

WriteNext == WriteCall

WriteSpec == WriteInit /\ [][WriteNext]_vars

\* a model has been written
Written == call.op = "writeModel" /\ call.returned /\ call.ok

\* the atoms of the reference that are in the atom map, in the order of
\* the reference
MappedRefAtoms ==
    SelectSeq(call.targetObj.chem_comp_atom,
              LAMBDA r : r.atom_id \in DOMAIN call.fitXyzMapD)

\* C17: the atom table of a written model has one row per reference atom
\* of the atom map, in the order of the reference, followed by one row
\* per unmapped fit atom named HEX and the zero-based ordinal of the atom:
\* (mapped reference atoms) + k rows for k unmapped atoms.
AtomTableRows ==
    Written
    => LET atom == call.exported[1].atom
           m    == Len(MappedRefAtoms)
           k    == Len(call.fitAtomUnMappedL)
       IN  /\ Len(atom) = m + k
           /\ \A i \in 1..Len(atom) :
                 atom[i].atom_id = IF i <= m THEN MappedRefAtoms[i].atom_id
                                   ELSE HexName(i - m - 1)

\* a model of a fit with two unmapped protons and a reference atom that
\* is not mapped has been written
WrittenWithTwoProtons ==
    /\ Written
    /\ Len(call.fitAtomUnMappedL) = 2
    /\ Len(MappedRefAtoms) < Len(call.targetObj.chem_comp_atom)

\* the bonds of the reference with both atoms in the atom map
MappedRefBonds ==
    SelectSeq(call.targetObj.chem_comp_bond,
              LAMBDA b : /\ b.atom_id_1 \in DOMAIN call.fitXyzMapD
                         /\ b.atom_id_2 \in DOMAIN call.fitXyzMapD)

\* the (unmapped atom, neighbor) pairs, in the order of the unmapped atoms
RECURSIVE NeighborPairs(_)
NeighborPairs(jj) ==
    IF jj >= Len(call.fitAtomUnMappedL) THEN <<>>
    ELSE [k \in 1..Len(call.fitAtomUnMappedL[jj + 1].fitNeighbors) |->
             <<jj, call.fitAtomUnMappedL[jj + 1].fitNeighbors[k]>>]
         \o NeighborPairs(jj + 1)

\* the reference atom that is mapped to a fit atom
RefAtomOf(fitAtName) ==
    CHOOSE r \in DOMAIN call.fitXyzMapD :
        call.fitXyzMapD[r].atName = fitAtName

\* C18: the bond table of a written model has the bonds of the reference
\* whose two atoms are in the atom map, followed by one single bond for
\* every (unmapped atom, neighbor) pair, from the HEX atom to the
\* reference atom mapped to the neighbor.
BondTableRows ==
    Written
    => LET bond  == call.exported[1].bond
           m     == Len(MappedRefBonds)
           pairs == NeighborPairs(0)
       IN  /\ Len(bond) = m + Len(pairs)
           /\ \A i \in 1..Len(bond) :
                 IF i <= m
                 THEN /\ bond[i].atom_id_1 = MappedRefBonds[i].atom_id_1
                      /\ bond[i].atom_id_2 = MappedRefBonds[i].atom_id_2
                      /\ bond[i].value_order = MappedRefBonds[i].value_order
                 ELSE /\ bond[i].atom_id_1 = HexName(pairs[i - m][1])
                      /\ bond[i].atom_id_2 = RefAtomOf(pairs[i - m][2])
                      /\ bond[i].value_order = "SING"

\* a model of a fit with one unmapped proton that has two neighbors has
\* been written
WrittenWithTwoNeighbors ==
    /\ Written
    /\ Len(call.fitAtomUnMappedL) = 1
    /\ Len(call.fitAtomUnMappedL[1].fitNeighbors) = 2

--------------------------------------------------------------------------
(* Failures in CODModelBuildWorker.build                                   *)

\* the records of the result list stay, a step adds at most one
ResultListExtended ==
    /\ Len(resultList') >= Len(resultList)
    /\ SubSeq(resultList', 1, Len(resultList)) = resultList

\* C19: when the alignment of a candidate fails (it returns the values of
\* a failure, or an empty atom map), that candidate alone is rejected: nothing is written or recorded for it, the loop goes on with
\* the next candidate, no record of the result list is ever removed and
\* the list is returned as it is at the end.
AlignFailureRejectsCandidate ==
    [][ /\ ResultListExtended
        /\ ( /\ pc = "judge"
              /\ \/ cur.aln = AlignFailure
                 \/ DOMAIN cur.aln.fitXyzMapD = {} )
             => /\ pc' = "loop"
                /\ ~cur'.acceptOk
                /\ resultList' = resultList
                /\ codFiles' = codFiles
        /\ pc' = "returned"
             => /\ resultList' = resultList
                /\ ret'[2] = resultList ]_vars

\* the alignment of a candidate has failed after a model was recorded, and
\* the loop goes on
AlignFailedAfterRecord ==
    /\ pc = "loop" /\ cur.targetObj
    /\ cur.aln = AlignFailure
    /\ resultList # <<>>
    /\ ~Recorded

\* C20: a candidate whose model write fails (a descriptor is missing, a
\* neighbor of an unmapped atom is not mapped, or the export fails) gets no
\* record and the loop goes on; a candidate gets its record, at the end of
\* the result list, exactly when its write succeeds.
WriteFailureDropsCandidate ==
    [][ pc = "judge"
        => /\ pc' = "loop"
           /\ ResultListExtended
           /\ IF cur'.export = "ok"
              THEN /\ Len(resultList') = Len(resultList) + 1
                   /\ resultList'[Len(resultList')].matchId
                        = cur.matchD.queryId
                   /\ resultList'[Len(resultList')].modelId = cur'.modelId
              ELSE resultList' = resultList
           /\ cur'.export = "ok"
                => /\ cur'.acceptOk
                   /\ KList \subseteq DOMAIN cur.aln.fitFD
                   /\ UnMappedOnMapped ]_vars

\* the export of the model of an accepted candidate has failed after a
\* model was recorded
ExportFailedAfterRecord ==
    /\ Judged /\ cur.acceptOk
    /\ cur.export = "failed"
    /\ resultList # <<>>
    /\ ~Recorded

\* C21: an error raised for one candidate is absorbed for that candidate:
\* it does not end the call of build, and the result list that build
\* returns has the records of the models accepted in the call.
CandidateErrorsAbsorbed ==
    /\ pc # "raised"
    /\ pc = "returned" => ret[2] = resultList

\* build has ended in its except clause after a model was recorded
RaisedAfterRecord ==
    /\ pc = "raised"
    /\ resultList # <<>>
    /\ ret[2] = <<>>

\* ---------------------------------------------------------------------
\* build and fetchModelIndex of CODModelBuild and ChemCompModelBuild
\* ---------------------------------------------------------------------

\* CODModelBuild.build after runMulti (lines 859-874): the records that
\* the worker returned are grouped by parent, the index is stored and
\* build returns it
CODStore ==
    /\ pc \in {"returned", "raised"}
    /\ call = NoCall
    /\ LET successList_ == ret[2]
           retD == RetD(successList_, Len(successList_))
       IN  /\ modelIndex' = StoreModelIndex(modelIndex, retD)
           /\ call' = [op |-> "build", retD |-> retD]
    /\ UNCHANGED <<modelFiles, priorAudit, asm, today, buildVars, ccmBuild>>

\* fetchModelIndex after build (ChemCompModelBuild lines 662-670,
\* CODModelBuild lines 800-808): doImport of the index file
FetchModelIndex ==
    /\ call.op = "build"
    /\ call' = [op |-> "fetchModelIndex", retD |-> call.retD,
                mD |-> modelIndex]
    /\ UNCHANGED <<asmVars, today, buildVars, ccmBuild>>

\* the index files that an earlier build may have left
PriorIndexes ==
    { <<>>,
      XYZ :> << [ modelId     |-> MakeModelId(XYZ, 1),
                  searchId    |-> XYZ,
                  parentId    |-> XYZ,
                  matchId     |-> "AAA",
                  modelPath   |-> MakeModelPath(XYZ, MakeModelId(XYZ, 1)),
                  rFactor     |-> MaxRFactor - 1,
                  hasDisorder |-> FALSE ] >> }

\* a builder of either class before build, with the index file of an
\* earlier build or none
IndexInit ==
    /\ modelIndex \in PriorIndexes
    /\ modelFiles = <<>>
    /\ priorAudit = <<>>
    /\ today = 101
    /\ asm = NotRun
    /\ BuildIdle
    /\ call = NoCall
    /\ \/ ccmBuild = NoBuild
       \/ \E q \in CcDataLists :
             ccmBuild = [ started       |-> TRUE,
                          dataList      |-> q,
                          startingModel |-> [w \in Workers |-> 1],
                          matchNum      |-> [w \in Workers |-> 0],
                          evaluated     |-> 0,
                          resultList    |-> [w \in Workers |-> <<>>],
                          stored        |-> FALSE ]

IndexNext ==
    \/ ~ccmBuild.started /\ BuildNext
    \/ CcBuildNext
    \/ CODStore
    \/ FetchModelIndex

IndexSpec == IndexInit /\ [][IndexNext]_vars

AssembleExport == AssembleRun(BOOLEAN)

ExportNext == AssembleExport

ExportSpec == Init /\ [][ExportNext]_vars

\* C23: assemble returns the number of models written to the concatenated
\* file: the number of models that passed the filters when the export
\* succeeded, and no model when the export failed.
ReturnsCountOfWritten ==
    asm.ran =>
       asm.count = IF asm.exported THEN Len(asm.imported) ELSE 0

\* a run has assembled a model and the export of the file has failed
ExportFailedWithModels ==
    /\ asm.ran
    /\ ~asm.exported
    /\ Len(asm.dataContainerL) > 0

\* ---------------------------------------------------------------------
\* CODModelSearch.fetchDataWorker and the STOP file
\* ---------------------------------------------------------------------

\* the search results cD: the number of matches qD of every ccId
SearchResults == [CcSearchIds -> 1..MaxMatches]

\* the worker is called with a part of the keys of cD; the STOP file of
\* resultPath exists or not  (lines 250-262)
FetchInit ==
    /\ AsmIdle
    /\ BuildIdle
    /\ ccmBuild = NoBuild
    /\ \E dataList \in SeqsUpTo(CcSearchIds, MaxSearchIds),
          cD \in SearchResults, stop \in BOOLEAN :
          /\ \A i, j \in 1..Len(dataList) : i # j => dataList[i] # dataList[j]
          /\ call = [ op          |-> "fetchDataWorker",
                      at          |-> "checkStop",
                      dataList    |-> dataList,
                      cD          |-> cD,
                      stop        |-> stop,
                      startedAtStop |-> 0,
                      started     |-> 0,
                      fetched     |-> 0,
                      rqDL        |-> <<>>,
                      resultList  |-> <<>>,
                      successList |-> <<>>,
                      ret         |-> <<>> ]

FetchRunning == call.op = "fetchDataWorker" /\ call.at # "returned"

\* somebody creates the file STOP in resultPath while the worker runs
CreateStopFile ==
    /\ FetchRunning
    /\ ~call.stop
    /\ call' = [call EXCEPT !.stop = TRUE, !.startedAtStop = call.started]
    /\ UNCHANGED <<asmVars, today, buildVars, ccmBuild>>

\* __checkStop(stopPath) before the loop (lines 264-266, 321-327)
CheckStop ==
    /\ FetchRunning
    /\ call.at = "checkStop"
    /\ call' = IF call.stop
               THEN [call EXCEPT !.at = "returned",
                       !.ret = <<call.resultList, call.resultList, <<>> >>]
               ELSE [call EXCEPT !.at = "loop"]
    /\ UNCHANGED <<asmVars, today, buildVars, ccmBuild>>

\* the next ccId of dataList (lines 269-274)
StartEntity ==
    /\ FetchRunning
    /\ call.at = "loop"
    /\ call.started < Len(call.dataList)
    /\ call' = [call EXCEPT !.at = "entity", !.started = @ + 1,
                            !.fetched = 0, !.rqDL = <<>>]
    /\ UNCHANGED <<asmVars, today, buildVars, ccmBuild>>

\* one match qD of the entity: the entry and its details are fetched, and
\* qD is kept when both are there (lines 275-302)
FetchMatch ==
    /\ FetchRunning
    /\ call.at = "entity"
    /\ LET ccId == call.dataList[call.started]
       IN  /\ call.fetched < call.cD[ccId]
           /\ \E ok1, ok2 \in BOOLEAN :
                 call' = [call EXCEPT
                    !.fetched = @ + 1,
                    !.rqDL = IF ok1 /\ ok2
                             THEN Append(@,
                                    [ queryId     |-> CcMatchId(call.fetched + 1),
                                      parentId    |-> Split(ccId, "|")[1],
                                      hasDisorder |-> "N" ])
                             ELSE @]
    /\ UNCHANGED <<asmVars, today, buildVars, ccmBuild>>

\* the end of the matches of the entity (lines 303-305)
EndEntity ==
    /\ FetchRunning
    /\ call.at = "entity"
    /\ LET ccId == call.dataList[call.started]
       IN  /\ call.fetched = call.cD[ccId]
           /\ call' = IF call.rqDL # <<>>
                      THEN [call EXCEPT
                              !.at = "loop",
                              !.resultList = Append(@, <<ccId, call.rqDL>>),
                              !.successList = Append(@, ccId)]
                      ELSE [call EXCEPT !.at = "loop"]
    /\ UNCHANGED <<asmVars, today, buildVars, ccmBuild>>

\* the end of dataList: return successList, resultList, []  (line 319)
FinishFetch ==
    /\ FetchRunning
    /\ call.at = "loop"
    /\ call.started = Len(call.dataList)
    /\ call' = [call EXCEPT !.at = "returned",
                   !.ret = <<call.successList, call.resultList, <<>> >>]
    /\ UNCHANGED <<asmVars, today, buildVars, ccmBuild>>

FetchNext ==
    \/ CreateStopFile
    \/ CheckStop
    \/ StartEntity
    \/ FetchMatch
    \/ EndEntity
    \/ FinishFetch

FetchSpec == FetchInit /\ [][FetchNext]_vars

\* C24: the worker consults the STOP file between entities: once the file
\* is there it starts no further entity, and it never returns in the
\* middle of an entity.
StopBetweenEntities ==
    [][ /\ call.stop => call'.started = call.started
        /\ (call.at = "entity" /\ call'.at # "entity")
              => (call'.at = "loop" /\ call.fetched = call.cD[call.dataList[call.started]])
      ]_vars

\* an entity was started after the STOP file was created
StartedAfterStop ==
    /\ call.op = "fetchDataWorker"
    /\ call.stop
    /\ call.started > call.startedAtStop

\* ---------------------------------------------------------------------
\* The features of a model written by CODModelBuildWorker.__writeModel
\* ---------------------------------------------------------------------

\* the reference atoms that have no row in the atom table
LeftOut ==
    SelectSeq(call.targetObj.chem_comp_atom,
              LAMBDA r : r.atom_id \notin DOMAIN call.fitXyzMapD)

AllLeftOutHydrogen == \A i \in 1..Len(LeftOut) : LeftOut[i].type_symbol = "H"

\* C25 as stated: a written model is flagged heavy_atoms_only exactly when
\* every reference atom left out of the atom table is a hydrogen.
HeavyAtomsOnlyIffLeftOutHydrogen ==
    Written
    => ("heavy_atoms_only" \in call.exported[1].feature <=> AllLeftOutHydrogen)

\* C25: a written model is flagged heavy_atoms_only exactly when a
\* reference atom is left out of the atom table and every reference atom
\* left out is a hydrogen; otherwise it is flagged all_atoms_have_sites
\* and not heavy_atoms_only.
HeavyAtomsOnlyIffSomeLeftOutAllHydrogen ==
    Written
    => LET feature == call.exported[1].feature
       IN  /\ "heavy_atoms_only" \in feature
                 <=> (LeftOut # <<>> /\ AllLeftOutHydrogen)
           /\ "heavy_atoms_only" \notin feature
                 => "all_atoms_have_sites" \in feature

\* a model was written with two hydrogens of the reference left out
WrittenWithHydrogensLeftOut ==
    /\ Written
    /\ Len(LeftOut) = 2
    /\ AllLeftOutHydrogen
    /\ "heavy_atoms_only" \in call.exported[1].feature

\* ---------------------------------------------------------------------
\* The order in which assemble processes the models of a parent
\* ---------------------------------------------------------------------

HasPriorId(mD) == ~StartsWith(mD.priorModelId, "Z")

\* C26: assemble processes the models of a parent in the order (has a
\* prior public identifier or not, variantType, rFactor): the models with
\* a prior identifier come first; among models that all have one, or all
\* have none, no tautomer_protomer model comes before a canonical one,
\* and models of equal variant come in ascending rFactor (stated for the
\* run of the day).
ProcessedByPriorVariantRFactor ==
    (asm.ran /\ asm.path = today) =>
      \A pId \in DOMAIN modelIndex :
         LET mDLS == SortedOf(pId)
         IN  \A i, j \in 1..Len(mDLS) :
               i < j =>
                 /\ HasPriorId(mDLS[j]) => HasPriorId(mDLS[i])
                 /\ HasPriorId(mDLS[i]) = HasPriorId(mDLS[j])
                      => /\ mDLS[j].variantType = Anone
                              => mDLS[i].variantType = Anone
                         /\ mDLS[i].variantType = mDLS[j].variantType
                              => mDLS[i].rFactor <= mDLS[j].rFactor

\* a run on a parent whose index has a tautomer_protomer model before a
\* canonical model, both with a prior identifier
PriorVariantIndexedBeforeCanonical ==
    /\ asm.ran
    /\ ABC \in DOMAIN modelIndex
    /\ Len(modelIndex[ABC]) = 2
    /\ modelIndex[ABC][1].variantType = TautomerProtomer
    /\ modelIndex[ABC][2].variantType = <<>>
    /\ \A i \in 1..2 : HasPriorId(SortedOf(ABC)[i])

\* ---------------------------------------------------------------------
\* The canonical-supremacy rule and the R factor limit
\* ---------------------------------------------------------------------

\* every canonical model of the parent has an R factor above the limit
CanonicalAllAboveLimit(pId) ==
    \A i \in 1..Len(SortedOf(pId)) :
        SortedOf(pId)[i].variantType = Anone
           => SortedOf(pId)[i].rFactor > MaxRFactor

\* C27: a tautomer_protomer model is rejected by the canonical-supremacy
\* rule only when a canonical model of its parent was accepted: when every
\* canonical model of the parent is rejected for its R factor, a
\* tautomer_protomer model with rFactor <= maxRFactor is in the output.
VariantKeptWhenCanonicalRejected ==
    asm.ran =>
      \A pId \in DOMAIN modelIndex :
         \A i \in 1..Len(SortedOf(pId)) :
            LET mD == SortedOf(pId)[i]
            IN  ( /\ mD.variantType = TautomerProtomer
                  /\ mD.rFactor <= MaxRFactor
                  /\ CanonicalAllAboveLimit(pId) )
                => mD.modelId \in ImportedIds

\* a run on a parent with a canonical model above the limit and a
\* tautomer_protomer model within it has emitted no model of the parent
VariantDroppedAfterRejectedCanonical ==
    /\ asm.ran
    /\ ABC \in DOMAIN modelIndex
    /\ \E i, j \in 1..Len(SortedOf(ABC)) :
          /\ SortedOf(ABC)[i].variantType = Anone
          /\ SortedOf(ABC)[j].variantType = TautomerProtomer
          /\ SortedOf(ABC)[j].rFactor <= MaxRFactor
    /\ CanonicalAllAboveLimit(ABC)
    /\ \A k \in OutIdx : asm.imported[k].modelId \notin
                              {SortedOf(ABC)[i].modelId : i \in 1..Len(SortedOf(ABC))}

\* ---------------------------------------------------------------------
\* assemble on the models of BIRD definitions
\* ---------------------------------------------------------------------

\* bound: the models and the published models of a BIRD definition
MaxBirdModels == 1

BirdMatchChoices ==
    [matchId : MatchIds, variantType : {<<>>},
     rFactor : {MaxRFactor - 1, MaxRFactor + 1}]

BirdPublished == { <<1, "CSD", "AAA">>, <<2, "CSD", "BBB">> }

\* an index with the models of two BIRD definitions, the first of them
\* with published models
BirdInit ==
    /\ \E ma \in SeqsUpTo(BirdMatchChoices, MaxBirdModels),
          mb \in SeqsUpTo(BirdMatchChoices, MaxBirdModels),
          pa \in PriorLists(PRD1, BirdPublished, MaxBirdModels) :
          LET index == (PRD1 :> IndexEntries(PRD1, ma))
                       @@ (PRD2 :> IndexEntries(PRD2, mb))
              prior == (PRD1 :> pa)
          IN  /\ modelIndex = [pId \in {p \in DOMAIN index : index[p] # <<>>}
                                  |-> index[pId]]
              /\ modelFiles = FilesOf(PRD1, IndexEntries(PRD1, ma))
                              @@ FilesOf(PRD2, IndexEntries(PRD2, mb))
              /\ priorAudit = [pId \in {p \in DOMAIN prior : prior[p] # <<>>}
                                  |-> prior[pId]]
    /\ today = 101
    /\ asm = NotRun
    /\ BuildIdle
    /\ OthersIdle

BirdSpec == BirdInit /\ [][Next]_vars

\* the parentId under which the k-th imported model is indexed
ParentOfImported(k) ==
    CHOOSE pId \in DOMAIN modelIndex :
       \E i \in 1..Len(modelIndex[pId]) :
          modelIndex[pId][i].modelId = asm.imported[k].modelId

\* the output models of a parent before position k that got a fresh number
FreshBefore(k) ==
    {j \in 1..(k - 1) : ParentOfImported(j) = ParentOfImported(k) /\ ~Reused(j)}

\* C28: a model that assemble relabels gets a public identifier with the
\* parentId under which it is indexed, numbered by the counter of that
\* parent, also when the parentId contains an underscore: the models of
\* two parents never share a counter or get the same identifier.
RelabelledUnderOwnParent ==
    asm.ran =>
      /\ \A k \in OutIdx :
            ~Reused(k) =>
               \E n \in 1..(MaxBirdModels + MaxPrior + 1) :
                  /\ asm.dataContainerL[k].name
                        = MakePublicModelId(ParentOfImported(k), n)
                  /\ (priorAudit = <<>>)
                        => n = Cardinality(FreshBefore(k)) + 1
      /\ \A j, k \in OutIdx :
            ParentOfImported(j) # ParentOfImported(k)
               => asm.dataContainerL[j].name # asm.dataContainerL[k].name

\* a run has relabelled a model of each of two BIRD definitions
TwoBirdParentsRelabelled ==
    /\ asm.ran
    /\ \E j, k \in OutIdx :
          /\ ParentOfImported(j) = PRD1 /\ ~Reused(j)
          /\ ParentOfImported(k) = PRD2 /\ ~Reused(k)

\* ---------------------------------------------------------------------
\* __makeModelPath in two build workers that run in parallel
\* ---------------------------------------------------------------------

\* bound: the model number that build hands to __makeModelPath
MaxStartingModel == 2

\* the value None of Python
None == [none |-> TRUE]

\* runMulti of ChemCompModelBuild.build (line 715) or CODModelBuild.build
\* (line 860) has started two workers; each is at a call of
\* __makeModelPath for a search id of its dataList, and the model
\* directory has the directories of some parents
PathInit ==
    /\ AsmIdle
    /\ BuildIdle
    /\ ccmBuild = NoBuild
    /\ \E class \in {"ChemCompModelBuildWorker", "CODModelBuildWorker"},
          targetId \in [Workers -> CcSearchIds],
          startingModelNum \in [Workers -> 1..MaxStartingModel],
          dirs \in SUBSET {ABC, XYZ} :
          /\ targetId["w1"] # targetId["w2"]
          /\ call = [ op    |-> "makeModelPath",
                      class |-> class,
                      dirs  |-> dirs,
                      w     |-> [w \in Workers |->
                                   [ at       |-> "access",
                                     targetId |-> targetId[w],
                                     parentId |-> Split(targetId[w], "|")[1],
                                     ii       |-> startingModelNum[w],
                                     modelId  |-> None,
                                     pth      |-> None ]] ]

\* what __makeModelPath returns when it has a directory (lines 349-351 and
\* 364-366 of ChemCompModelBuild.py, 416-418 and 430-432 of CODModelBuild.py)
PathOf(class, me) ==
    IF class = "CODModelBuildWorker"
    THEN LET mp == CODMakeModelPath(me.parentId, me.targetId, me.ii)
         IN  [me EXCEPT !.at = "returned", !.modelId = mp.modelId,
                        !.pth = mp.modelPath]
    ELSE LET modelId == MakeModelId(me.parentId, me.ii)
         IN  [me EXCEPT !.at = "returned", !.modelId = modelId,
                        !.pth = MakeModelPath(me.parentId, modelId)]

\* if not os.access(dirPath, os.R_OK)  (line 347; CODModelBuild.py 414)
AccessDir(w) ==
    /\ call.op = "makeModelPath"
    /\ call.w[w].at = "access"
    /\ call' = [call EXCEPT
                  !.w[w] = IF call.w[w].parentId \in call.dirs
                           THEN PathOf(call.class, call.w[w])
                           ELSE [@ EXCEPT !.at = "makedirs"]]
    /\ UNCHANGED <<asmVars, today, buildVars, ccmBuild>>

\* os.makedirs(dirPath) (line 348; CODModelBuild.py 415): FileExistsError
\* if the directory exists by now; ChemCompModelBuildWorker does not catch
\* it, CODModelBuildWorker logs it and returns None, None (lines 433-436)
MakeDirs(w) ==
    /\ call.op = "makeModelPath"
    /\ call.w[w].at = "makedirs"
    /\ call' =
          IF call.w[w].parentId \in call.dirs
          THEN IF call.class = "CODModelBuildWorker"
               THEN [call EXCEPT !.w[w].at = "returned"]
               ELSE [call EXCEPT !.w[w].at = "raised"]
          ELSE [call EXCEPT
                  !.dirs = @ \cup {call.w[w].parentId},
                  !.w[w] = PathOf(call.class, call.w[w])]
    /\ UNCHANGED <<asmVars, today, buildVars, ccmBuild>>

PathNext ==
    \/ \E w \in Workers : AccessDir(w)
    \/ \E w \in Workers : MakeDirs(w)

PathSpec == PathInit /\ [][PathNext]_vars

\* C29: no interleaving of two workers that make the model path of search
\* ids of one parent makes a worker raise or obtain no model path.
NoWorkerLosesModelPath ==
    call.op = "makeModelPath" =>
       \A w \in Workers :
          /\ call.w[w].at # "raised"
          /\ call.w[w].at = "returned" => call.w[w].pth # None

\* both workers have found the directory of their parent missing, one has
\* created it and the other has failed in os.makedirs
DirectoryCreatedInBetween ==
    /\ call.op = "makeModelPath"
    /\ call.w["w1"].parentId = call.w["w2"].parentId
    /\ \E w, v \in Workers :
          /\ call.w[w].at = "returned" /\ call.w[w].pth # None
          /\ \/ call.w[v].at = "raised"
             \/ call.w[v].at = "returned" /\ call.w[v].pth = None

\* ---------------------------------------------------------------------
\* The atoms of the bond rows of a model written by __writeModel
\* ---------------------------------------------------------------------

\* C30: in a written model every bond row refers only to atoms that have
\* a row in the atom table of the model, for any unmapped fit atoms and
\* any neighbor lists.
BondAtomsInAtomTable ==
    Written
    => LET atom    == call.exported[1].atom
           bond    == call.exported[1].bond
           atomIds == {atom[i].atom_id : i \in 1..Len(atom)}
       IN  \A i \in 1..Len(bond) :
              /\ bond[i].atom_id_1 \in atomIds
              /\ bond[i].atom_id_2 \in atomIds

\* a model of a fit with an unmapped proton that has a neighbor, followed
\* by one that has no recorded neighbor, has been written
WrittenWithProtonWithoutNeighbor ==
    /\ Written
    /\ Len(call.fitAtomUnMappedL) = 2
    /\ call.fitAtomUnMappedL[1].fitNeighbors # <<>>
    /\ call.fitAtomUnMappedL[2].fitNeighbors = <<>>

====
